---- MODULE Spec2Model ----
(***************************************************************************)
(* Content versioning and restore engine of markdown-site                  *)
(* (convex/files.ts, second half: isEnabled .. getStats).                  *)
(*                                                                         *)
(* The tables are functions from document ids to documents; a document     *)
(* that does not exist is not in the DOMAIN of its table.  Version ids are *)
(* handed out in creation order, so the id order is also the order of the  *)
(* documents' creation time, which every index uses as its last key.       *)
(*                                                                         *)
(* Each handler is written once, as a pure step function over the          *)
(* database (one step per awaited database operation).  Spec runs every    *)
(* handler to its end in one action, from the empty database.  SpecSeeded  *)
(* runs restoreVersion, to its end or up to a failing patch, from a        *)
(* database that already holds snapshots.  SpecConc runs restoreVersion    *)
(* one awaited operation at a time, for several callers, with faults.      *)
(* SpecSweep runs cleanupOldVersions over a backlog larger than one batch, *)
(* SpecSweepFair with a scheduler that keeps invoking it.  SpecRead adds   *)
(* the queries to the writing operations, and SpecScenario runs the        *)
(* edit-edit-restore scenario of one content item.  SpecPreview takes      *)
(* snapshots of long contents.  SpecGate runs createVersion one awaited    *)
(* operation at a time while the gate is set.  SpecModal and SpecHandler   *)
(* run the version history modal (components/VersionHistoryModal.tsx) on   *)
(* top of restoreVersion, and SpecUpload runs commitFile (convex/files.ts, *)
(* first half, with convex/fs.ts).                                         *)
(***************************************************************************)
EXTENDS Integers, Sequences, FiniteSets, TLC

VARIABLES
    versionControlSettings, \* table: sequence of [key, value] in creation order
    contentVersions,        \* table: version id -> snapshot document
    nextVersionId,          \* next id the store assigns to an inserted snapshot
    posts,                  \* table: content id -> live post
    pages,                  \* table: content id -> live page
    now,                    \* Date.now()
    calls,                  \* SpecConc: caller -> local state of its restoreVersion
    liveSeen,               \* history: every state each live item has had
    firstVersionId,         \* the id of the first snapshot inserted after Init
    lastOp,                 \* the operation that ran last, its argument and result
    creates,                \* SpecGate: caller -> local state of its createVersion
    modal,                  \* the version history modal: its props and React state
    uploads                 \* media storage: its configuration and the commits

vars == <<versionControlSettings, contentVersions, nextVersionId, posts, pages,
          now, calls, liveSeen, firstVersionId, lastOp, creates, modal, uploads>>

\* ------------------------------------------------------------------ bounds
MaxVersions == 2      \* snapshots inserted in one behaviour
MaxDays == 1          \* time horizon: whole retention periods ...
MaxMs == 2            \* ... plus milliseconds
MaxPending == 2       \* restore requests one modal has in flight
MaxUploads == 2       \* files committed in one behaviour
BacklogExtra == 2     \* SpecSweep: size of the backlog beyond the batch limit

\* ------------------------------------------------------- program constants
RETENTION_MS == 3 * 24 * 60 * 60 * 1000
BatchLimit == 1000
PreviewLen == 150

\* ------------------------------------------------------------ value domains
ContentTypes == {"post", "page"}
ContentIds == {"c1"}
Sources == {"sync", "dashboard", "restore"}
Undefined == "<undefined>"
Callers == {"u1", "u2"}
NoVersion == 0                       \* an id that never resolves

NoResult == [success |-> FALSE, message |-> "<none>"]
VersionNotFound == [success |-> FALSE, message |-> "Version not found"]
OriginalNotFound == [success |-> FALSE, message |-> "Original content not found"]
Restored == [success |-> TRUE, message |-> "Version restored successfully"]

\* ------------------------------------------------------------- the database
Db == [versionControlSettings |-> versionControlSettings,
       contentVersions |-> contentVersions,
       nextVersionId |-> nextVersionId,
       posts |-> posts,
       pages |-> pages]

\* mutant: the insert replaces the snapshots the content item already has
InsertVersionReplace(db, doc) ==
    [db EXCEPT !.contentVersions =
                   [i \in {j \in DOMAIN db.contentVersions :
                               \/ db.contentVersions[j].contentType # doc.contentType
                               \/ db.contentVersions[j].contentId # doc.contentId}
                           \cup {db.nextVersionId} |->
                       IF i = db.nextVersionId THEN doc ELSE db.contentVersions[i]],
               !.nextVersionId = db.nextVersionId + 1]

\* mutant: the store hands out the lowest id that is free
InsertVersionLowestFree(db, doc) ==
    LET id == CHOOSE i \in 1..db.nextVersionId :
                  /\ i \notin DOMAIN db.contentVersions
                  /\ \A j \in 1..(i - 1) : j \in DOMAIN db.contentVersions
    IN [db EXCEPT !.contentVersions =
                      [i \in DOMAIN db.contentVersions \cup {id} |->
                          IF i = id THEN doc ELSE db.contentVersions[i]],
                  !.nextVersionId = db.nextVersionId + 1]

\* ctx.db.insert("contentVersions", doc)
InsertVersion(db, doc) ==
    [db EXCEPT !.contentVersions =
                   [i \in DOMAIN db.contentVersions \cup {db.nextVersionId} |->
                       IF i = db.nextVersionId THEN doc ELSE db.contentVersions[i]],
               !.nextVersionId = db.nextVersionId + 1]

\* ctx.db.delete(id) for every id of a batch
DeleteVersions(db, ids) ==
    [db EXCEPT !.contentVersions =
                   [i \in DOMAIN db.contentVersions \ ids |-> db.contentVersions[i]]]

\* .query("versionControlSettings").withIndex("by_key", q.eq("key","enabled")).first()
EnabledSettings(db) ==
    SelectSeq(db.versionControlSettings, LAMBDA s : s.key = "enabled")

\* setting?.value === true
GateOn(db) ==
    /\ EnabledSettings(db) # <<>>
    /\ Head(EnabledSettings(db)).value = TRUE

\* mutant: the setting's value is not looked at
isEnabledIfPresent(db) == EnabledSettings(db) # <<>>

isEnabled(db) == GateOn(db)

\* the table a snapshot's contentId is looked up in
LiveTable(db, contentType) == IF contentType = "post" THEN db.posts ELSE db.pages

\* ------------------------------------------------------------------ VersionGate
\* mutant: the lookup finds no record
ExistingSettingNone(db) == 0

\* setEnabled, first await: the existing setting's position, 0 when there is none
ExistingSetting(db) ==
    IF \E i \in 1..Len(db.versionControlSettings) :
           db.versionControlSettings[i].key = "enabled"
    THEN CHOOSE i \in 1..Len(db.versionControlSettings) :
           /\ db.versionControlSettings[i].key = "enabled"
           /\ \A j \in 1..(i - 1) : db.versionControlSettings[j].key # "enabled"
    ELSE 0

\* mutant: an existing setting is toggled instead of set
WriteSettingToggle(db, existing, enabled) ==
    IF existing # 0
    THEN [db EXCEPT !.versionControlSettings[existing].value = ~@]
    ELSE [db EXCEPT !.versionControlSettings =
                        Append(db.versionControlSettings,
                               [key |-> "enabled", value |-> enabled])]

\* setEnabled, second await: patch the record read, or insert a new one
WriteSetting(db, existing, enabled) ==
    IF existing # 0
    THEN [db EXCEPT !.versionControlSettings[existing].value = enabled]
    ELSE [db EXCEPT !.versionControlSettings =
                        Append(db.versionControlSettings,
                               [key |-> "enabled", value |-> enabled])]

setEnabled(db, enabled) == WriteSetting(db, ExistingSetting(db), enabled)

\* ---------------------------------------------------------------- SnapshotStore
\* local state of one createVersion call
IdleCreate == [pc |-> "idle",
               args |-> [contentType |-> "post", contentId |-> "", slug |-> "",
                         title |-> "", content |-> "", description |-> Undefined,
                         source |-> "sync"],
               enabled |-> FALSE, result |-> NoVersion]

StartedCreate(args) == [IdleCreate EXCEPT !.pc = "readGate", !.args = args]

\* mutant: the insert follows whatever the gate read returned
StepReadGateIgnored(db, l, t) ==
    [db |-> db, l |-> [l EXCEPT !.pc = "insert", !.enabled = GateOn(db)]]

\* const setting = await ctx.db.query("versionControlSettings")...first();
\* if (setting?.value !== true) return null
StepReadGate(db, l, t) ==
    IF ~GateOn(db)
    THEN [db |-> db, l |-> [l EXCEPT !.pc = "done", !.enabled = FALSE,
                                     !.result = NoVersion]]
    ELSE [db |-> db, l |-> [l EXCEPT !.pc = "insert", !.enabled = TRUE]]

\* const versionId = await ctx.db.insert("contentVersions", {...}); return versionId
StepInsert(db, l, t) ==
    [db |-> InsertVersion(db, [contentType |-> l.args.contentType,
                               contentId |-> l.args.contentId,
                               slug |-> l.args.slug,
                               title |-> l.args.title,
                               content |-> l.args.content,
                               description |-> l.args.description,
                               createdAt |-> t,
                               source |-> l.args.source]),
     l |-> [l EXCEPT !.pc = "done", !.result = db.nextVersionId]]

\* one awaited database operation of createVersion
CreateStep(db, l, t) ==
    CASE l.pc = "readGate" -> StepReadGate(db, l, t)
      [] l.pc = "insert" -> StepInsert(db, l, t)
      [] OTHER -> [db |-> db, l |-> l]

\* mutant: the gate is not looked at
createVersionUngated(db, args, t) ==
    [db |-> InsertVersion(db, [contentType |-> args.contentType,
                               contentId |-> args.contentId,
                               slug |-> args.slug,
                               title |-> args.title,
                               content |-> args.content,
                               description |-> args.description,
                               createdAt |-> t,
                               source |-> args.source]),
     result |-> db.nextVersionId]

\* createVersion: null (NoVersion) while the gate is off, else the new id
createVersion(db, args, t) ==
    IF ~GateOn(db)
    THEN [db |-> db, result |-> NoVersion]
    ELSE [db |-> InsertVersion(db, [contentType |-> args.contentType,
                                    contentId |-> args.contentId,
                                    slug |-> args.slug,
                                    title |-> args.title,
                                    content |-> args.content,
                                    description |-> args.description,
                                    createdAt |-> t,
                                    source |-> args.source]),
          result |-> db.nextVersionId]

\* ------------------------------------------------------------ RestoreCoordinator
\* local state of one restoreVersion call
NoDoc == [slug |-> "", title |-> "", content |-> "", description |-> Undefined,
          lastSyncedAt |-> 0]
NoSnapshot == [contentType |-> "post", contentId |-> "", slug |-> "", title |-> "",
               content |-> "", description |-> Undefined, createdAt |-> 0,
               source |-> "sync"]
IdleCall == [pc |-> "idle", versionId |-> NoVersion, version |-> NoSnapshot,
             currentContent |-> NoDoc, backupId |-> NoVersion, result |-> NoResult]

\* mutant: the description is never captured
CapturedDescriptionNone(currentContent) == Undefined

\* "description" in currentContent ? currentContent.description : undefined
\* (a document without the field carries Undefined)
CapturedDescription(currentContent) == currentContent.description

\* mutant: the backup captures the target's title instead of the live item's
BackupDocOfVersion(version, currentContent, t) ==
    [contentType |-> version.contentType,
     contentId |-> version.contentId,
     slug |-> version.slug,
     title |-> version.title,
     content |-> currentContent.content,
     description |-> currentContent.description,
     createdAt |-> t,
     source |-> "restore"]

\* mutant: the backup takes its slug from the live item
BackupDocLiveSlug(version, currentContent, t) ==
    [contentType |-> version.contentType,
     contentId |-> version.contentId,
     slug |-> currentContent.slug,
     title |-> currentContent.title,
     content |-> currentContent.content,
     description |-> CapturedDescription(currentContent),
     createdAt |-> t,
     source |-> "restore"]

\* mutant: the backup captures the target's content instead of the live item's
BackupDocContentOfVersion(version, currentContent, t) ==
    [contentType |-> version.contentType,
     contentId |-> version.contentId,
     slug |-> version.slug,
     title |-> currentContent.title,
     content |-> version.content,
     description |-> CapturedDescription(currentContent),
     createdAt |-> t,
     source |-> "restore"]

\* the backup snapshot of the live item's current state
BackupDoc(version, currentContent, t) ==
    [contentType |-> version.contentType,
     contentId |-> version.contentId,
     slug |-> version.slug,
     title |-> currentContent.title,
     content |-> currentContent.content,
     description |-> CapturedDescription(currentContent),
     createdAt |-> t,
     source |-> "restore"]

\* mutant: the description is written without the "" default
RestoredDescriptionRaw(version) == version.description

\* version.description || ""
RestoredDescription(version) ==
    IF version.description = Undefined \/ version.description = ""
    THEN ""
    ELSE version.description

\* mutant: the patch leaves the title out
PatchLiveKeepTitle(db, version, t) ==
    IF version.contentType = "post"
    THEN [db EXCEPT !.posts[version.contentId] =
                        [@ EXCEPT !.content = version.content,
                                  !.description = RestoredDescription(version),
                                  !.lastSyncedAt = t]]
    ELSE [db EXCEPT !.pages[version.contentId] =
                        [@ EXCEPT !.content = version.content,
                                  !.lastSyncedAt = t]]

\* mutant: the patch is applied to the post and to the page with the contentId
PatchLiveBoth(db, version, t) ==
    [db EXCEPT !.posts = [i \in DOMAIN db.posts |->
                             IF i = version.contentId
                             THEN [db.posts[i] EXCEPT !.title = version.title,
                                                      !.content = version.content,
                                                      !.lastSyncedAt = t]
                             ELSE db.posts[i]],
               !.pages = [i \in DOMAIN db.pages |->
                             IF i = version.contentId
                             THEN [db.pages[i] EXCEPT !.title = version.title,
                                                      !.content = version.content,
                                                      !.lastSyncedAt = t]
                             ELSE db.pages[i]]]

\* mutant: the page is patched with the description, as a post is
PatchLiveDescribed(db, version, t) ==
    IF version.contentType = "post"
    THEN [db EXCEPT !.posts[version.contentId] =
                        [@ EXCEPT !.title = version.title,
                                  !.content = version.content,
                                  !.description = RestoredDescription(version),
                                  !.lastSyncedAt = t]]
    ELSE [db EXCEPT !.pages[version.contentId] =
                        [@ EXCEPT !.title = version.title,
                                  !.content = version.content,
                                  !.description = RestoredDescription(version),
                                  !.lastSyncedAt = t]]

\* ctx.db.patch(version.contentId, {...}) of the restore
PatchLive(db, version, t) ==
    IF version.contentType = "post"
    THEN [db EXCEPT !.posts[version.contentId] =
                        [@ EXCEPT !.title = version.title,
                                  !.content = version.content,
                                  !.description = RestoredDescription(version),
                                  !.lastSyncedAt = t]]
    ELSE [db EXCEPT !.pages[version.contentId] =
                        [@ EXCEPT !.title = version.title,
                                  !.content = version.content,
                                  !.lastSyncedAt = t]]

\* mutant: the missing snapshot is not checked for
StepGetVersionNoCheck(db, l, t) ==
    [db |-> db,
     l |-> [l EXCEPT !.pc = "getContent",
                     !.version = IF l.versionId \in DOMAIN db.contentVersions
                                 THEN db.contentVersions[l.versionId]
                                 ELSE NoSnapshot]]

\* const version = await ctx.db.get(args.versionId)
StepGetVersion(db, l, t) ==
    IF l.versionId \notin DOMAIN db.contentVersions
    THEN [db |-> db, l |-> [l EXCEPT !.pc = "done", !.result = VersionNotFound]]
    ELSE [db |-> db,
          l |-> [l EXCEPT !.pc = "getContent",
                          !.version = db.contentVersions[l.versionId]]]

\* mutant: the missing live item is not checked for
StepGetContentNoCheck(db, l, t) ==
    [db |-> db,
     l |-> [l EXCEPT !.pc = "backup",
                     !.currentContent =
                         IF l.version.contentId \in
                                DOMAIN LiveTable(db, l.version.contentType)
                         THEN LiveTable(db, l.version.contentType)[l.version.contentId]
                         ELSE NoDoc]]

\* mutant: the missing live item is reported with the other failure's message
StepGetContentOtherMessage(db, l, t) ==
    IF l.version.contentId \notin DOMAIN LiveTable(db, l.version.contentType)
    THEN [db |-> db, l |-> [l EXCEPT !.pc = "done", !.result = VersionNotFound]]
    ELSE [db |-> db,
          l |-> [l EXCEPT !.pc = "backup",
                          !.currentContent =
                              LiveTable(db, l.version.contentType)[l.version.contentId]]]

\* currentContent = await ctx.db.get(version.contentId)
StepGetContent(db, l, t) ==
    IF l.version.contentId \notin DOMAIN LiveTable(db, l.version.contentType)
    THEN [db |-> db, l |-> [l EXCEPT !.pc = "done", !.result = OriginalNotFound]]
    ELSE [db |-> db,
          l |-> [l EXCEPT !.pc = "backup",
                          !.currentContent =
                              LiveTable(db, l.version.contentType)[l.version.contentId]]]

\* mutant: the backup goes through the gate, as createVersion does
StepBackupGated(db, l, t) ==
    IF GateOn(db)
    THEN [db |-> InsertVersion(db, BackupDoc(l.version, l.currentContent, t)),
          l |-> [l EXCEPT !.pc = "patch", !.backupId = db.nextVersionId]]
    ELSE [db |-> db, l |-> [l EXCEPT !.pc = "patch"]]

\* mutant: no backup is taken when the live item already equals the target
StepBackupIfChanged(db, l, t) ==
    IF l.currentContent.title = l.version.title
       /\ l.currentContent.content = l.version.content
    THEN [db |-> db, l |-> [l EXCEPT !.pc = "patch"]]
    ELSE [db |-> InsertVersion(db, BackupDoc(l.version, l.currentContent, t)),
          l |-> [l EXCEPT !.pc = "patch", !.backupId = db.nextVersionId]]

\* mutant: the backup is written over the target snapshot
StepBackupOverTarget(db, l, t) ==
    [db |-> [db EXCEPT !.contentVersions[l.versionId] =
                           BackupDoc(l.version, l.currentContent, t)],
     l |-> [l EXCEPT !.pc = "patch", !.backupId = l.versionId]]

\* await ctx.db.insert("contentVersions", {...backup...})
StepBackup(db, l, t) ==
    [db |-> InsertVersion(db, BackupDoc(l.version, l.currentContent, t)),
     l |-> [l EXCEPT !.pc = "patch", !.backupId = db.nextVersionId]]

\* mutant: a failing patch is swallowed and success is returned
StepPatchSwallow(db, l, t) ==
    IF l.version.contentId \notin DOMAIN LiveTable(db, l.version.contentType)
    THEN [db |-> db, l |-> [l EXCEPT !.pc = "done", !.result = Restored]]
    ELSE [db |-> PatchLive(db, l.version, t),
          l |-> [l EXCEPT !.pc = "done", !.result = Restored]]

\* await ctx.db.patch(...); return {success: true, ...}
\* (patch throws when the document does not exist)
StepPatch(db, l, t) ==
    IF l.version.contentId \notin DOMAIN LiveTable(db, l.version.contentType)
    THEN [db |-> db, l |-> [l EXCEPT !.pc = "threw"]]
    ELSE [db |-> PatchLive(db, l.version, t),
          l |-> [l EXCEPT !.pc = "done", !.result = Restored]]

\* mutant: the live item is patched before the backup is inserted
RestoreStepPatchFirst(db, l, t) ==
    CASE l.pc = "getVersion" ->
            IF l.versionId \notin DOMAIN db.contentVersions
            THEN [db |-> db, l |-> [l EXCEPT !.pc = "done", !.result = VersionNotFound]]
            ELSE [db |-> db,
                  l |-> [l EXCEPT !.pc = "getContent",
                                  !.version = db.contentVersions[l.versionId]]]
      [] l.pc = "getContent" ->
            IF l.version.contentId \notin DOMAIN LiveTable(db, l.version.contentType)
            THEN [db |-> db, l |-> [l EXCEPT !.pc = "done", !.result = OriginalNotFound]]
            ELSE [db |-> db,
                  l |-> [l EXCEPT !.pc = "backup",
                                  !.currentContent =
                                      LiveTable(db, l.version.contentType)[l.version.contentId]]]
      [] l.pc = "backup" ->
            IF l.version.contentId \notin DOMAIN LiveTable(db, l.version.contentType)
            THEN [db |-> db, l |-> [l EXCEPT !.pc = "threw"]]
            ELSE [db |-> PatchLive(db, l.version, t),
                  l |-> [l EXCEPT !.pc = "patch", !.result = Restored]]
      [] l.pc = "patch" ->
            [db |-> InsertVersion(db, BackupDoc(l.version, l.currentContent, t)),
             l |-> [l EXCEPT !.pc = "done", !.backupId = db.nextVersionId]]
      [] OTHER -> [db |-> db, l |-> l]

\* one awaited database operation of restoreVersion
RestoreStep(db, l, t) ==
    CASE l.pc = "getVersion" -> StepGetVersion(db, l, t)
      [] l.pc = "getContent" -> StepGetContent(db, l, t)
      [] l.pc = "backup" -> StepBackup(db, l, t)
      [] l.pc = "patch" -> StepPatch(db, l, t)
      [] OTHER -> [db |-> db, l |-> l]

\* the handler from l on; a storage fault at the operation faultAt makes it throw
RECURSIVE RunRestore(_, _, _, _)
RunRestore(db, l, t, faultAt) ==
    IF l.pc \in {"done", "threw", "idle"}
    THEN [db |-> db, l |-> l]
    ELSE IF l.pc = faultAt
    THEN [db |-> db, l |-> [l EXCEPT !.pc = "threw"]]
    ELSE LET r == RestoreStep(db, l, t) IN RunRestore(r.db, r.l, t, faultAt)

StartedCall(versionId) ==
    [IdleCall EXCEPT !.pc = "getVersion", !.versionId = versionId]

\* the whole handler
restoreVersion(db, versionId, t) ==
    RunRestore(db, StartedCall(versionId), t, "none")

\* -------------------------------------------------------------- RetentionSweeper
\* mutant: the index is read newest first
IndexBeforeDesc(cv, i, j) ==
    \/ cv[i].createdAt > cv[j].createdAt
    \/ cv[i].createdAt = cv[j].createdAt /\ i > j

\* order of the by_createdAt index: createdAt, then creation order
IndexBefore(cv, i, j) ==
    \/ cv[i].createdAt < cv[j].createdAt
    \/ cv[i].createdAt = cv[j].createdAt /\ i < j

\* the ids of the stored snapshots, in creation order
VersionIds(db) ==
    SelectSeq([i \in 1..(db.nextVersionId - 1) |-> i],
              LAMBDA i : i \in DOMAIN db.contentVersions)

\* .query("contentVersions").withIndex("by_createdAt"): the ids in index order
ByCreatedAt(db) ==
    SortSeq(VersionIds(db), LAMBDA i, j : IndexBefore(db.contentVersions, i, j))

\* mutant: the boundary is included (lte instead of lt)
OlderThanOrAt(db, cutoff) ==
    SelectSeq(ByCreatedAt(db), LAMBDA i : db.contentVersions[i].createdAt <= cutoff)

\* (q) => q.lt("createdAt", cutoff): the range of the index below the cutoff
OlderThan(db, cutoff) ==
    SelectSeq(ByCreatedAt(db), LAMBDA i : db.contentVersions[i].createdAt < cutoff)

\* mutant: the whole range is collected
TakeAll(range, n) == range

\* mutant: the whole range is collected and a range over the limit makes the call
\* fail, so that nothing is deleted
TakeOrFail(range, n) == IF Len(range) <= n THEN range ELSE <<>>

\* .take(n): the first n of a range
Take(range, n) ==
    IF Len(range) <= n THEN range ELSE SubSeq(range, 1, n)

\* mutant: the sweep goes through the gate and spares the restore backups
cleanupOldVersionsGated(db, t) ==
    LET cutoff == t - RETENTION_MS
    IN CHOOSE r \in
           { [db |-> DeleteVersions(db, {oldVersions[k] : k \in 1..Len(oldVersions)}),
              result |-> Len(oldVersions)] :
             oldVersions \in
                 {IF GateOn(db)
                  THEN Take(SelectSeq(OlderThan(db, cutoff),
                                      LAMBDA i : db.contentVersions[i].source # "restore"),
                            BatchLimit)
                  ELSE <<>>} } : TRUE

\* oldVersions is collected once; the deletes and the count then use that batch
cleanupOldVersions(db, t) ==
    LET cutoff == t - RETENTION_MS
    IN CHOOSE r \in
           { [db |-> DeleteVersions(db, {oldVersions[k] : k \in 1..Len(oldVersions)}),
              result |-> Len(oldVersions)] :
             oldVersions \in {Take(OlderThan(db, cutoff), BatchLimit)} } : TRUE

\* ---------------------------------------------------------------- history queries
\* mutant: the content type is left out of the index range
ByContentIdOnly(db, contentType, contentId) ==
    SelectSeq(ByCreatedAt(db),
              LAMBDA i : db.contentVersions[i].contentId = contentId)

\* .withIndex("by_content", q.eq("contentType", ..).eq("contentId", ..)): the ids of
\* one content key in index order (createdAt, then creation order)
ByContent(db, contentType, contentId) ==
    SelectSeq(ByCreatedAt(db),
              LAMBDA i : /\ db.contentVersions[i].contentType = contentType
                         /\ db.contentVersions[i].contentId = contentId)

\* mutant: the index is read in its own, ascending, order
OrderAsc(range) == range

\* .order("desc")
OrderDesc(range) == [k \in 1..Len(range) |-> range[Len(range) + 1 - k]]

\* mutant: a content of exactly the preview length gets the ellipsis too
ContentPreviewFrom(content) ==
    IF Len(content) >= PreviewLen
    THEN SubSeq(content, 1, PreviewLen) \o "..."
    ELSE content

\* v.content.slice(0, 150) + (v.content.length > 150 ? "..." : "")
ContentPreview(content) ==
    IF Len(content) > PreviewLen
    THEN SubSeq(content, 1, PreviewLen) \o "..."
    ELSE content

\* one element of versions.map(...)
Summary(db, i) ==
    [id |-> i,
     title |-> db.contentVersions[i].title,
     createdAt |-> db.contentVersions[i].createdAt,
     source |-> db.contentVersions[i].source,
     contentPreview |-> ContentPreview(db.contentVersions[i].content)]

getVersionHistory(db, contentType, contentId) ==
    LET versions == OrderDesc(ByContent(db, contentType, contentId))
    IN [k \in 1..Len(versions) |-> Summary(db, versions[k])]

\* a value or null: the sequence of the value, or the empty sequence
Null == <<>>
Some(value) == <<value>>

\* the record getVersion builds from the document it read
VersionRecord(id, version) ==
    [id |-> id,
     contentType |-> version.contentType,
     contentId |-> version.contentId,
     slug |-> version.slug,
     title |-> version.title,
     content |-> version.content,
     description |-> version.description,
     createdAt |-> version.createdAt,
     source |-> version.source]

\* mutant: the description is left out of the record
getVersionNoDescription(db, versionId) ==
    IF versionId \notin DOMAIN db.contentVersions
    THEN Null
    ELSE Some([VersionRecord(versionId, db.contentVersions[versionId])
                   EXCEPT !.description = Undefined])

getVersion(db, versionId) ==
    IF versionId \notin DOMAIN db.contentVersions
    THEN Null
    ELSE Some(VersionRecord(versionId, db.contentVersions[versionId]))

\* versions.map((v) => v.createdAt), as the set of its values
Timestamps(db) == {db.contentVersions[i].createdAt : i \in DOMAIN db.contentVersions}

\* Math.min(...timestamps), Math.max(...timestamps)
Min(S) == CHOOSE m \in S : \A x \in S : m <= x
Max(S) == CHOOSE m \in S : \A x \in S : m >= x

\* mutant: oldest and newest are taken the wrong way round
getStatsSwapped(db) ==
    [enabled |-> GateOn(db),
     totalVersions |-> Cardinality(DOMAIN db.contentVersions),
     oldestVersion |-> IF Timestamps(db) # {} THEN Some(Max(Timestamps(db))) ELSE Null,
     newestVersion |-> IF Timestamps(db) # {} THEN Some(Min(Timestamps(db))) ELSE Null]

getStats(db) ==
    [enabled |-> GateOn(db),
     totalVersions |-> Cardinality(DOMAIN db.contentVersions),
     oldestVersion |-> IF Timestamps(db) # {} THEN Some(Min(Timestamps(db))) ELSE Null,
     newestVersion |-> IF Timestamps(db) # {} THEN Some(Max(Timestamps(db))) ELSE Null]

\* ------------------------------------------------------ VersionHistoryModal
\* the modal of one content item: its props (isOpen, contentType, contentId), its
\* state (selectedVersionId, isRestoring) and the restoreVersion requests it has
\* sent and not yet heard back from, oldest first
ClosedModal(k) ==
    [isOpen |-> FALSE, contentType |-> k[1], contentId |-> k[2],
     selectedVersionId |-> Null, isRestoring |-> FALSE, pending |-> <<>>]

\* the parent's onClose: it takes isOpen back
onClose(m) == [m EXCEPT !.isOpen = FALSE]

\* onClick={() => setSelectedVersionId(version._id)}
setSelectedVersionId(m, id) == [m EXCEPT !.selectedVersionId = Some(id)]

\* mutant: the button stays enabled while a restore is running
RestoreDisabledNoSelection(m) == m.selectedVersionId = Null

\* disabled={!selectedVersionId || isRestoring}
RestoreDisabled(m) == m.selectedVersionId = Null \/ m.isRestoring

\* handleRestore up to its await: return without a selection, else
\* setIsRestoring(true) and send restoreVersion({versionId: selectedVersionId})
handleRestore(m) ==
    IF m.selectedVersionId = Null
    THEN m
    ELSE [m EXCEPT !.isRestoring = TRUE,
                   !.pending = Append(@, m.selectedVersionId[1])]

\* mutant: the modal is closed whatever the result
RestoreReturnedClosing(m, result) ==
    [onClose(m) EXCEPT !.isRestoring = FALSE, !.pending = Tail(@)]

\* handleRestore after its await, the mutation having returned result:
\* if (result.success) onClose(); finally setIsRestoring(false)
RestoreReturned(m, result) ==
    [(IF result.success THEN onClose(m) ELSE m) EXCEPT
         !.isRestoring = FALSE, !.pending = Tail(@)]

\* handleRestore after its await, the mutation having thrown: only the finally
\* block runs
RestoreThrew(m) == [m EXCEPT !.isRestoring = FALSE, !.pending = Tail(@)]

\* ------------------------------------------------------------------ media upload
ALLOWED_TYPES == {"image/png", "image/jpeg", "image/gif", "image/webp"}
MAX_FILE_SIZE == 10 * 1024 * 1024

BunnyVars == {"BUNNY_API_KEY", "BUNNY_STORAGE_ZONE", "BUNNY_CDN_HOSTNAME"}

\* !!process.env.BUNNY_API_KEY && !!process.env.BUNNY_STORAGE_ZONE &&
\* !!process.env.BUNNY_CDN_HOSTNAME, env being the variables that are set
isBunnyConfigured(env) == BunnyVars \subseteq env

\* fs is a ConvexFS instance when configured, else null
FsPresent(u) == isBunnyConfigured(u.env)

Lower == "abcdefghijklmnopqrstuvwxyz"
Upper == "ABCDEFGHIJKLMNOPQRSTUVWXYZ"
Digits == "0123456789"

\* the characters of a string
Chars(s) == {SubSeq(s, i, i) : i \in 1..Len(s)}

\* [a-zA-Z0-9.-]
NameChars == Chars(Lower) \cup Chars(Upper) \cup Chars(Digits) \cup {".", "-"}

\* the lower-case letter of every upper-case letter
LowerCase ==
    [c \in Chars(Upper) |->
        LET i == CHOOSE j \in 1..Len(Upper) : SubSeq(Upper, j, j) = c
        IN SubSeq(Lower, i, i)]

\* .toLowerCase() of one character
LowerOf(c) == IF c \in DOMAIN LowerCase THEN LowerCase[c] ELSE c

\* .replace(/[^a-zA-Z0-9.-]/g, "-") of one character
Replaced(c) == IF c \in NameChars THEN c ELSE "-"

\* filename.replace(/[^a-zA-Z0-9.-]/g, "-").replace(/-+/g, "-").toLowerCase(),
\* from the character i on; prev is the character written last
RECURSIVE SanitizedFrom(_, _, _)
SanitizedFrom(filename, i, prev) ==
    IF i > Len(filename)
    THEN ""
    ELSE LET c == Replaced(SubSeq(filename, i, i))
         IN IF c = "-" /\ prev = "-"
            THEN SanitizedFrom(filename, i + 1, prev)
            ELSE LowerOf(c) \o SanitizedFrom(filename, i + 1, c)

sanitizedName(filename) == SanitizedFrom(filename, 1, "")

NoError == ""
NotConfigured == "Media uploads not configured"
InvalidType(contentType) == "Invalid file type: " \o contentType
TooLarge == "File too large"

\* mutant: a file of exactly the maximum size is rejected
OverSizeOrAt(size) == size >= MAX_FILE_SIZE

\* args.size > MAX_FILE_SIZE
OverSize(size) == size > MAX_FILE_SIZE

\* commitFile: the three checks, each throwing, then fs.commitFiles of the blob
\* at the path /uploads/<timestamp>-<sanitized name>
commitFile(u, args, t) ==
    IF ~FsPresent(u)
    THEN [uploads |-> u, error |-> NotConfigured]
    ELSE IF args.contentType \notin ALLOWED_TYPES
    THEN [uploads |-> u, error |-> InvalidType(args.contentType)]
    ELSE IF OverSize(args.size)
    THEN [uploads |-> u, error |-> TooLarge]
    ELSE [uploads |-> [u EXCEPT !.committed =
                          Append(@, [path |-> <<"/uploads/", t,
                                                sanitizedName(args.filename)>>,
                                     blobId |-> args.blobId])],
          error |-> NoError]

\* ------------------------------------------------------------------- environment
\* what the callers pass to createVersion
CreateArgs ==
    { [contentType |-> "post", contentId |-> "c1", slug |-> "s0", title |-> "A",
       content |-> "y", description |-> Undefined, source |-> "sync"],
      [contentType |-> "post", contentId |-> "c1", slug |-> "s1", title |-> "B",
       content |-> "x", description |-> "d", source |-> "dashboard"],
      [contentType |-> "page", contentId |-> "c1", slug |-> "s0", title |-> "B",
       content |-> "x", description |-> "d", source |-> "dashboard"],
      [contentType |-> "page", contentId |-> "c2", slug |-> "s1", title |-> "A",
       content |-> "x", description |-> Undefined, source |-> "restore"] }

\* what an editor writes to a live item
EditInputs ==
    { [title |-> "B", content |-> "y", description |-> ""] }

Keys == ContentTypes \X ContentIds

\* the content keys the history is asked for
QueryKeys == ContentTypes \X {a.contentId : a \in CreateArgs}

\* the fields of a live item that a snapshot captures
LiveState(doc) ==
    [title |-> doc.title, content |-> doc.content, description |-> doc.description]

Seen(db) ==
    [k \in Keys |->
        liveSeen[k] \cup
        (IF k[2] \in DOMAIN LiveTable(db, k[1])
         THEN {LiveState(LiveTable(db, k[1])[k[2]])}
         ELSE {})]

\* the behaviours start at StartTime
StartTime == 2 * RETENTION_MS
\* the clock stops MaxDays retention periods and MaxMs milliseconds after StartTime
WithinHorizon(t) ==
    /\ (t - StartTime) \div RETENTION_MS <= MaxDays
    /\ (t - StartTime) % RETENTION_MS <= MaxMs

\* the database after an operation; SpecConc also records the live states
Commit(db, track) ==
    /\ versionControlSettings' = db.versionControlSettings
    /\ contentVersions' = db.contentVersions
    /\ nextVersionId' = db.nextVersionId
    /\ posts' = db.posts
    /\ pages' = db.pages
    /\ liveSeen' = IF track THEN Seen(db) ELSE liveSeen
    /\ firstVersionId' = firstVersionId

InitLive ==
    /\ posts = [i \in ContentIds |->
                   [slug |-> "s1", title |-> "A", content |-> "x",
                    description |-> "d", lastSyncedAt |-> 0]]
    /\ pages = [i \in ContentIds |->
                   [slug |-> "s1", title |-> "A", content |-> "x",
                    description |-> Undefined, lastSyncedAt |-> 0]]
    /\ liveSeen = [k \in Keys |->
                      {[title |-> "A", content |-> "x",
                        description |-> IF k[1] = "post" THEN "d" ELSE Undefined]}]

\* the record of an operation: its name, its arguments and what it returned
NoArgs == [contentType |-> "post", contentId |-> "", slug |-> "", title |-> "",
           content |-> "", description |-> Undefined, source |-> "sync"]
NoStats == [enabled |-> FALSE, totalVersions |-> 0,
            oldestVersion |-> Null, newestVersion |-> Null]
NoUpload == [blobId |-> "", filename |-> "", contentType |-> "", size |-> 0,
             error |-> NoError]
Op(name) == [op |-> name, versionId |-> NoVersion, enabled |-> FALSE,
             args |-> NoArgs, key |-> <<"", "">>, caller |-> "", value |-> 0,
             call |-> IdleCall, flag |-> FALSE, history |-> <<>>, again |-> FALSE,
             found |-> Null, stats |-> NoStats, upload |-> NoUpload]
NoOp == Op("init")

\* no createVersion call is running, the modal of the post is closed and nothing
\* is configured or committed
InitClients ==
    /\ creates = [c \in Callers |-> IdleCreate]
    /\ modal = ClosedModal(<<"post", "c1">>)
    /\ uploads = [env |-> {}, committed |-> <<>>]

Init ==
    /\ versionControlSettings = <<>>
    /\ contentVersions = <<>>
    /\ nextVersionId = 1
    /\ firstVersionId = 1
    /\ InitLive
    /\ now = StartTime
    /\ calls = [c \in Callers |-> IdleCall]
    /\ lastOp = NoOp
    /\ InitClients

\* ----------------------------------------------------------------------- actions
\* time passes: Date.now() advances by one of the increments in D
Tick(D) ==
    \E d \in D :
        /\ WithinHorizon(now + d)
        /\ now' = now + d
        /\ lastOp' = [Op("tick") EXCEPT !.value = d]
        /\ UNCHANGED <<versionControlSettings, contentVersions, nextVersionId,
                       posts, pages, calls, liveSeen, firstVersionId,
                       creates, modal, uploads>>

\* the shortest time after which a snapshot taken now is past the retention window
TickPastRetention == Tick({RETENTION_MS + 1})

SetEnabled ==
    \E enabled \in BOOLEAN :
        /\ Commit(setEnabled(Db, enabled), FALSE)
        /\ lastOp' = [Op("setEnabled") EXCEPT
                          !.enabled = enabled,
                          \* the call repeats the call before it
                          !.again = (lastOp.op = "setEnabled" /\ lastOp.enabled = enabled)]
        /\ UNCHANGED <<now, calls, creates, modal, uploads>>

CreateVersion ==
    \E args \in CreateArgs :
        LET r == createVersion(Db, args, now) IN
        /\ r.db.nextVersionId <= firstVersionId + MaxVersions
        /\ Commit(r.db, FALSE)
        /\ lastOp' = [Op("createVersion") EXCEPT !.args = args, !.value = r.result]
        /\ UNCHANGED <<now, calls, creates, modal, uploads>>

RestoreVersion ==
    \E versionId \in 0..(nextVersionId - 1) :
        LET r == restoreVersion(Db, versionId, now) IN
        /\ r.db.nextVersionId <= firstVersionId + MaxVersions
        /\ Commit(r.db, FALSE)
        /\ lastOp' = [Op("restoreVersion") EXCEPT !.versionId = versionId, !.call = r.l]
        /\ UNCHANGED <<now, calls, creates, modal, uploads>>

\* restoreVersion with a storage fault between the backup insert and the patch
RestoreVersionFault ==
    \E versionId \in 0..(nextVersionId - 1) :
        LET r == RunRestore(Db, StartedCall(versionId), now, "patch") IN
        /\ r.l.pc = "threw"
        /\ r.db.nextVersionId <= firstVersionId + MaxVersions
        /\ Commit(r.db, FALSE)
        /\ lastOp' = [Op("restoreVersionFault") EXCEPT !.versionId = versionId,
                                                     !.call = r.l]
        /\ UNCHANGED <<now, calls, creates, modal, uploads>>

CleanupOldVersions ==
    \E r \in {cleanupOldVersions(Db, now)} :
        /\ Commit(r.db, FALSE)
        /\ lastOp' = [Op("cleanupOldVersions") EXCEPT !.value = r.result]
        /\ UNCHANGED <<now, calls, creates, modal, uploads>>

\* the content repository: an editor changes a live item
UpdateContent(track) ==
    \E k \in Keys, e \in EditInputs :
        /\ k[2] \in DOMAIN LiveTable(Db, k[1])
        /\ IF k[1] = "post"
           THEN Commit([Db EXCEPT !.posts[k[2]] =
                           [@ EXCEPT !.title = e.title, !.content = e.content,
                                     !.description = e.description]], track)
           ELSE Commit([Db EXCEPT !.pages[k[2]] =
                           [@ EXCEPT !.title = e.title, !.content = e.content]], track)
        /\ lastOp' = [Op("updateContent") EXCEPT !.key = k]
        /\ UNCHANGED <<now, calls, creates, modal, uploads>>

\* the content repository: a live item is deleted
DeleteContent(track) ==
    \E k \in Keys :
        /\ k[2] \in DOMAIN LiveTable(Db, k[1])
        /\ IF k[1] = "post"
           THEN Commit([Db EXCEPT !.posts = [i \in DOMAIN posts \ {k[2]} |-> posts[i]]],
                       track)
           ELSE Commit([Db EXCEPT !.pages = [i \in DOMAIN pages \ {k[2]} |-> pages[i]]],
                       track)
        /\ lastOp' = [Op("deleteContent") EXCEPT !.key = k]
        /\ UNCHANGED <<now, calls, creates, modal, uploads>>

Edit == UpdateContent(FALSE)
Remove == DeleteContent(FALSE)

Next ==
    \/ TickPastRetention
    \/ SetEnabled
    \/ CreateVersion
    \/ RestoreVersion
    \/ CleanupOldVersions
    \/ Edit
    \/ Remove

Spec == Init /\ [][Next]_vars

\* ------------------------------------------------------------------ the queries
\* mutant: isEnabled creates the setting when there is none
IsEnabledCreating ==
    /\ Commit(IF EnabledSettings(Db) = <<>> THEN setEnabled(Db, FALSE) ELSE Db, FALSE)
    /\ lastOp' = [Op("isEnabled") EXCEPT !.flag = isEnabled(Db)]
    /\ UNCHANGED <<now, calls, creates, modal, uploads>>

\* a query reads the database and returns; nothing is written
IsEnabled ==
    /\ lastOp' = [Op("isEnabled") EXCEPT !.flag = isEnabled(Db)]
    /\ UNCHANGED <<versionControlSettings, contentVersions, nextVersionId,
                   posts, pages, now, calls, liveSeen, firstVersionId,
                       creates, modal, uploads>>

GetVersionHistory ==
    \E k \in QueryKeys :
        /\ lastOp' = [Op("getVersionHistory") EXCEPT
                          !.key = k,
                          !.history = getVersionHistory(Db, k[1], k[2])]
        /\ UNCHANGED <<versionControlSettings, contentVersions, nextVersionId,
                       posts, pages, now, calls, liveSeen, firstVersionId,
                       creates, modal, uploads>>

GetVersion ==
    \E versionId \in 0..(nextVersionId - 1) :
        /\ lastOp' = [Op("getVersion") EXCEPT !.versionId = versionId,
                                              !.found = getVersion(Db, versionId)]
        /\ UNCHANGED <<versionControlSettings, contentVersions, nextVersionId,
                       posts, pages, now, calls, liveSeen, firstVersionId,
                       creates, modal, uploads>>

GetStats ==
    /\ lastOp' = [Op("getStats") EXCEPT !.stats = getStats(Db)]
    /\ UNCHANGED <<versionControlSettings, contentVersions, nextVersionId,
                   posts, pages, now, calls, liveSeen, firstVersionId,
                       creates, modal, uploads>>

\* SpecRead: the operations that write the stores, and the queries
NextRead ==
    \/ TickPastRetention
    \/ SetEnabled
    \/ CreateVersion
    \/ RestoreVersion
    \/ CleanupOldVersions
    \/ IsEnabled
    \/ GetVersionHistory
    \/ GetVersion
    \/ GetStats

SpecRead == Init /\ [][NextRead]_vars

\* --------------------------------------------- restoreVersion, step by step
\* SpecConc: the store runs each awaited operation atomically and nothing more;
\* callers interleave between the operations of a restoreVersion call and a
\* storage fault can end a call before any of its operations.

RECURSIVE Seeded(_, _, _)
Seeded(db, argsSeq, t) ==
    IF argsSeq = <<>>
    THEN db
    ELSE Seeded(createVersion(db, Head(argsSeq), t).db, Tail(argsSeq), t)

\* the snapshots of the items "c1", in the order they were taken
SeedArgs ==
    <<CHOOSE a \in CreateArgs : a.contentType = "post" /\ a.title = "A",
      CHOOSE a \in CreateArgs : a.contentType = "post" /\ a.title = "B",
      CHOOSE a \in CreateArgs : a.contentType = "page" /\ a.contentId = "c1">>

\* the gate was enabled, every item was snapshotted, the gate was set again
InitConc ==
    /\ InitLive
    /\ now = StartTime
    /\ \E gate \in BOOLEAN :
           LET empty == [versionControlSettings |-> <<>>,
                         contentVersions |-> <<>>,
                         nextVersionId |-> 1,
                         posts |-> posts,
                         pages |-> pages]
               db == setEnabled(Seeded(setEnabled(empty, TRUE), SeedArgs, now), gate)
           IN /\ versionControlSettings = db.versionControlSettings
              /\ contentVersions = db.contentVersions
              /\ nextVersionId = db.nextVersionId
              /\ firstVersionId = db.nextVersionId
    /\ calls = [c \in Callers |-> IdleCall]
    /\ lastOp = NoOp
    /\ InitClients

\* SpecSeeded: restores, run to their end, of a store that holds snapshots
NextSeeded ==
    \/ SetEnabled
    \/ RestoreVersion
    \/ RestoreVersionFault
    \/ Edit
    \/ Remove

SpecSeeded == InitConc /\ [][NextSeeded]_vars

\* a caller calls restoreVersion(versionId)
BeginRestore ==
    \E c \in Callers, versionId \in 0..(nextVersionId - 1) :
        /\ calls[c].pc = "idle"
        /\ calls' = [calls EXCEPT ![c] = StartedCall(versionId)]
        /\ lastOp' = [Op("begin") EXCEPT !.caller = c, !.versionId = versionId]
        /\ UNCHANGED <<versionControlSettings, contentVersions, nextVersionId,
                       posts, pages, now, liveSeen, firstVersionId,
                       creates, modal, uploads>>

\* the next awaited operation of a caller's restoreVersion
StepRestore ==
    \E c \in Callers :
        /\ calls[c].pc \in {"getVersion", "getContent", "backup", "patch"}
        /\ LET r == RestoreStep(Db, calls[c], now) IN
           /\ Commit(r.db, TRUE)
           /\ calls' = [calls EXCEPT ![c] = r.l]
           /\ lastOp' = [Op("step") EXCEPT !.caller = c, !.call = r.l]
        /\ UNCHANGED <<now, creates, modal, uploads>>

\* a storage fault: the caller's next operation fails and the handler throws
FaultRestore ==
    \E c \in Callers :
        /\ calls[c].pc \in {"getVersion", "getContent", "backup", "patch"}
        /\ calls' = [calls EXCEPT ![c].pc = "threw"]
        /\ lastOp' = [Op("fault") EXCEPT !.caller = c, !.call = calls'[c]]
        /\ UNCHANGED <<versionControlSettings, contentVersions, nextVersionId,
                       posts, pages, now, liveSeen, firstVersionId,
                       creates, modal, uploads>>

ConcEdit == UpdateContent(TRUE)
ConcRemove == DeleteContent(TRUE)

NextConc ==
    \/ BeginRestore
    \/ StepRestore
    \/ FaultRestore
    \/ ConcEdit
    \/ ConcRemove

SpecConc == InitConc /\ [][NextConc]_vars

\* --------------------------------------------------- the retention sweep's backlog
\* SpecSweep: the store holds more snapshots than one sweep deletes.

\* a millisecond, or exactly the retention window
TickFine == Tick({1, RETENTION_MS})

Backlog == BatchLimit + BacklogExtra

\* snapshot i of a backlog whose first `old` snapshots are past the retention
\* window at StartTime; the others but the last are exactly at its boundary and
\* the last was taken at StartTime
BacklogDoc(i, old) ==
    [contentType |-> SeedArgs[1].contentType,
     contentId |-> SeedArgs[1].contentId,
     slug |-> SeedArgs[1].slug,
     title |-> SeedArgs[1].title,
     content |-> SeedArgs[1].content,
     description |-> SeedArgs[1].description,
     createdAt |-> IF i <= old THEN StartTime - RETENTION_MS - 1
                   ELSE IF i < Backlog THEN StartTime - RETENTION_MS
                   ELSE StartTime,
     source |-> SeedArgs[1].source]

InitSweep ==
    /\ InitLive
    /\ now = StartTime
    /\ versionControlSettings = <<[key |-> "enabled", value |-> TRUE]>>
    /\ nextVersionId = Backlog + 1
    /\ firstVersionId = Backlog + 1
    /\ \E old \in (BatchLimit - 1)..(BatchLimit + 1) :
           contentVersions = [i \in 1..Backlog |-> BacklogDoc(i, old)]
    /\ calls = [c \in Callers |-> IdleCall]
    /\ lastOp = NoOp
    /\ InitClients

NextSweep ==
    \/ TickFine
    \/ CleanupOldVersions
    \/ SetEnabled

SpecSweep == InitSweep /\ [][NextSweep]_vars

\* the scheduler keeps invoking the sweep
SpecSweepFair == SpecSweep /\ WF_vars(CleanupOldVersions)

\* ------------------------------------------------------- the editing scenario
\* SpecScenario: an operator edits one content item with the gate off, enables
\* the gate, edits the item twice and restores its first snapshot; time may pass
\* before every step.

\* the editing workflow: the edit is recorded through createVersion as it is
\* applied to the live item
EditContent(db, k, title, t) ==
    LET live == LiveTable(db, k[1])[k[2]]
        r == createVersion(db, [contentType |-> k[1],
                                contentId |-> k[2],
                                slug |-> live.slug,
                                title |-> title,
                                content |-> live.content,
                                description |-> live.description,
                                source |-> "dashboard"], t)
    IN IF k[1] = "post"
       THEN [r.db EXCEPT !.posts[k[2]].title = title]
       ELSE [r.db EXCEPT !.pages[k[2]].title = title]

\* the time that passes before a step of the scenario: none, a millisecond or
\* a retention window
Delays == {0, 1, RETENTION_MS}

InitScenario ==
    /\ InitLive
    /\ now = StartTime
    /\ versionControlSettings \in {<<>>, <<[key |-> "enabled", value |-> FALSE]>>}
    /\ contentVersions = <<>>
    /\ nextVersionId = 1
    /\ firstVersionId = 1
    /\ calls = [c \in Callers |-> IdleCall]
    /\ lastOp = NoOp
    /\ InitClients

\* a step of the scenario: the database after it, at time t, and the history of
\* the item read back
ScenarioStep(name, db, k, t, call) ==
    /\ WithinHorizon(t)
    /\ Commit(db, FALSE)
    /\ now' = t
    /\ lastOp' = [Op(name) EXCEPT !.key = k,
                                  !.call = call,
                                  !.history = getVersionHistory(db, k[1], k[2])]
    /\ UNCHANGED <<calls, creates, modal, uploads>>

ScenarioEditGateOff ==
    \E k \in Keys, title \in {"A", "B"}, d \in Delays :
        /\ lastOp.op = "init"
        /\ ScenarioStep("editGateOff", EditContent(Db, k, title, now + d), k, now + d,
                        IdleCall)

ScenarioEnable ==
    \E d \in Delays :
        /\ lastOp.op = "editGateOff"
        /\ ScenarioStep("enableGate", setEnabled(Db, TRUE), lastOp.key, now + d,
                        IdleCall)

ScenarioEditA ==
    \E d \in Delays :
        /\ lastOp.op = "enableGate"
        /\ ScenarioStep("editA", EditContent(Db, lastOp.key, "A", now + d),
                        lastOp.key, now + d, IdleCall)

ScenarioEditB ==
    \E d \in Delays :
        /\ lastOp.op = "editA"
        /\ ScenarioStep("editB", EditContent(Db, lastOp.key, "B", now + d),
                        lastOp.key, now + d, IdleCall)

\* the first entry of the history is the one recorded first, the last returned
ScenarioRestoreFirst ==
    \E d \in Delays :
        /\ lastOp.op = "editB"
        /\ lastOp.history # <<>>
        /\ LET first == lastOp.history[Len(lastOp.history)].id
               r == restoreVersion(Db, first, now + d)
           IN ScenarioStep("restoreFirst", r.db, lastOp.key, now + d, r.l)

NextScenario ==
    \/ ScenarioEditGateOff
    \/ ScenarioEnable
    \/ ScenarioEditA
    \/ ScenarioEditB
    \/ ScenarioRestoreFirst

SpecScenario == InitScenario /\ [][NextScenario]_vars

\* ------------------------------------------------------------- long contents
\* SpecPreview: snapshots of contents around the preview length, and their history

\* the n characters of a text from its position i on
RECURSIVE Segment(_, _)
Segment(i, n) ==
    IF n = 0
    THEN ""
    ELSE IF n = 1
    THEN (IF i % 3 = 0 THEN "c" ELSE IF i % 3 = 1 THEN "a" ELSE "b")
    ELSE Segment(i, n \div 2) \o Segment(i + n \div 2, n - n \div 2)

\* a text of n characters
Text(n) == Segment(1, n)

\* the lengths of the contents: none, and around the preview length
ContentLengths == {0, 1, PreviewLen - 1, PreviewLen, PreviewLen + 1, 2 * PreviewLen}

CreateLongVersion ==
    \E a \in {SeedArgs[1]}, n \in ContentLengths :
        LET args == [a EXCEPT !.content = Text(n)]
            r == createVersion(Db, args, now)
        IN /\ r.db.nextVersionId <= firstVersionId + MaxVersions
           /\ Commit(r.db, FALSE)
           /\ lastOp' = [Op("createVersion") EXCEPT !.args = args, !.value = r.result]
           /\ UNCHANGED <<now, calls, creates, modal, uploads>>

InitPreview ==
    /\ InitLive
    /\ now = StartTime
    /\ versionControlSettings = <<[key |-> "enabled", value |-> TRUE]>>
    /\ contentVersions = <<>>
    /\ nextVersionId = 1
    /\ firstVersionId = 1
    /\ calls = [c \in Callers |-> IdleCall]
    /\ lastOp = NoOp
    /\ InitClients

NextPreview ==
    \/ CreateLongVersion
    \/ GetVersionHistory

SpecPreview == InitPreview /\ [][NextPreview]_vars

\* ------------------------------------------------ createVersion, step by step
\* SpecGate: createVersion runs one awaited operation at a time, for several
\* callers, while the gate is set.

\* a caller calls createVersion(args)
BeginCreate ==
    \E c \in Callers, args \in CreateArgs :
        /\ creates[c].pc \in {"idle", "done"}
        /\ creates' = [creates EXCEPT ![c] = StartedCreate(args)]
        /\ lastOp' = [Op("beginCreate") EXCEPT !.caller = c, !.args = args]
        /\ UNCHANGED <<versionControlSettings, contentVersions, nextVersionId,
                       posts, pages, now, calls, liveSeen, firstVersionId,
                       modal, uploads>>

\* the next awaited operation of a caller's createVersion
StepCreate ==
    \E c \in Callers :
        /\ creates[c].pc \in {"readGate", "insert"}
        /\ LET r == CreateStep(Db, creates[c], now) IN
           /\ r.db.nextVersionId <= firstVersionId + MaxVersions
           /\ Commit(r.db, FALSE)
           /\ creates' = [creates EXCEPT ![c] = r.l]
           /\ lastOp' = [Op("stepCreate") EXCEPT !.caller = c, !.args = r.l.args,
                                                 !.value = r.l.result]
        /\ UNCHANGED <<now, calls, modal, uploads>>

NextGate ==
    \/ SetEnabled
    \/ BeginCreate
    \/ StepCreate

SpecGate == Init /\ [][NextGate]_vars

\* ------------------------------------------------- the version history modal
\* SpecModal: an operator works the modal of one content item: opens and closes
\* it, selects a version of the list and clicks the restore button; the restore
\* requests return or throw later.  React commits the state a click handler sets
\* before the next event, so a step shows the state the next event finds.
\* SpecHandler: the same, with handleRestore called also when no version is
\* selected.

InitModal ==
    /\ InitLive
    /\ now = StartTime
    /\ LET empty == [versionControlSettings |-> <<>>,
                     contentVersions |-> <<>>,
                     nextVersionId |-> 1,
                     posts |-> posts,
                     pages |-> pages]
           db == Seeded(setEnabled(empty, TRUE), SeedArgs, now)
       IN /\ versionControlSettings = db.versionControlSettings
          /\ contentVersions = db.contentVersions
          /\ nextVersionId = db.nextVersionId
          /\ firstVersionId = db.nextVersionId
    /\ calls = [c \in Callers |-> IdleCall]
    /\ lastOp = NoOp
    /\ creates = [c \in Callers |-> IdleCreate]
    /\ \E k \in Keys : modal = ClosedModal(k)
    /\ uploads = [env |-> {}, committed |-> <<>>]

\* a step of the modal that leaves the database alone
ModalStep(name, m, versionId) ==
    /\ modal' = m
    /\ lastOp' = [Op(name) EXCEPT !.versionId = versionId]
    /\ UNCHANGED <<versionControlSettings, contentVersions, nextVersionId,
                   posts, pages, now, calls, liveSeen, firstVersionId,
                   creates, uploads>>

\* the parent renders the modal with isOpen
OpenModal ==
    /\ ~modal.isOpen
    /\ ModalStep("openModal", [modal EXCEPT !.isOpen = TRUE], NoVersion)

\* the overlay, the close button or Cancel is clicked
CloseModal ==
    /\ modal.isOpen
    /\ ModalStep("closeModal", onClose(modal), NoVersion)

\* an entry of the list, which is the history of the modal's content item, is clicked
SelectVersion ==
    /\ modal.isOpen
    /\ \E h \in {getVersionHistory(Db, modal.contentType, modal.contentId)} :
           \E i \in 1..Len(h) :
               ModalStep("selectVersion", setSelectedVersionId(modal, h[i].id), h[i].id)

\* the restore button is clicked; a disabled button takes no click
ClickRestore ==
    /\ modal.isOpen
    /\ ~RestoreDisabled(modal)
    /\ Len(modal.pending) < MaxPending
    /\ ModalStep("handleRestore", handleRestore(modal), NoVersion)

\* handleRestore is called while no request is in flight, with a version
\* selected or with none
HandleRestore ==
    /\ modal.isOpen
    /\ modal.pending = <<>>
    /\ ModalStep("handleRestore", handleRestore(modal), NoVersion)

\* the oldest request in flight runs restoreVersion and its result comes back
RestoreReturns ==
    /\ modal.pending # <<>>
    /\ LET r == restoreVersion(Db, Head(modal.pending), now) IN
       /\ r.db.nextVersionId <= firstVersionId + MaxVersions
       /\ Commit(r.db, FALSE)
       /\ modal' = RestoreReturned(modal, r.l.result)
       /\ lastOp' = [Op("restoreReturned") EXCEPT !.versionId = Head(modal.pending),
                                                 !.call = r.l]
    /\ UNCHANGED <<now, calls, creates, uploads>>

\* the oldest request in flight throws: a fault ends restoreVersion before one
\* of its operations
RestoreThrows ==
    /\ modal.pending # <<>>
    /\ \E faultAt \in {"getVersion", "getContent", "backup", "patch"} :
           LET r == RunRestore(Db, StartedCall(Head(modal.pending)), now, faultAt) IN
           /\ r.l.pc = "threw"
           /\ r.db.nextVersionId <= firstVersionId + MaxVersions
           /\ Commit(r.db, FALSE)
           /\ modal' = RestoreThrew(modal)
           /\ lastOp' = [Op("restoreThrew") EXCEPT !.versionId = Head(modal.pending),
                                                  !.call = r.l]
    /\ UNCHANGED <<now, calls, creates, uploads>>

NextModal ==
    \/ OpenModal
    \/ CloseModal
    \/ SelectVersion
    \/ ClickRestore
    \/ RestoreReturns
    \/ RestoreThrows
    \/ Remove

SpecModal == InitModal /\ [][NextModal]_vars

NextHandler ==
    \/ OpenModal
    \/ CloseModal
    \/ SelectVersion
    \/ HandleRestore
    \/ RestoreReturns
    \/ RestoreThrows
    \/ Remove

SpecHandler == InitModal /\ [][NextHandler]_vars

\* ------------------------------------------------------------ the media uploads
\* SpecUpload: files are committed to a deployment with any of the storage
\* variables set.

\* what the upload clients pass to commitFile: the types allowed and others, and
\* sizes around the maximum
UploadArgs ==
    [blobId : {"b1"},
     filename : {"a.png", "A_ -b.PNG"},
     contentType : ALLOWED_TYPES \cup {"image/svg+xml", "IMAGE/PNG"},
     size : {0, MAX_FILE_SIZE - 1, MAX_FILE_SIZE, MAX_FILE_SIZE + 1}]

InitUpload ==
    /\ InitLive
    /\ now = StartTime
    /\ versionControlSettings = <<>>
    /\ contentVersions = <<>>
    /\ nextVersionId = 1
    /\ firstVersionId = 1
    /\ calls = [c \in Callers |-> IdleCall]
    /\ lastOp = NoOp
    /\ creates = [c \in Callers |-> IdleCreate]
    /\ modal = ClosedModal(<<"post", "c1">>)
    /\ \E env \in SUBSET BunnyVars : uploads = [env |-> env, committed |-> <<>>]

CommitFile ==
    \E args \in UploadArgs :
        LET r == commitFile(uploads, args, now) IN
        /\ Len(r.uploads.committed) <= MaxUploads
        /\ uploads' = r.uploads
        /\ lastOp' = [Op("commitFile") EXCEPT
                          !.upload = [blobId |-> args.blobId,
                                      filename |-> args.filename,
                                      contentType |-> args.contentType,
                                      size |-> args.size,
                                      error |-> r.error]]
        /\ UNCHANGED <<versionControlSettings, contentVersions, nextVersionId,
                       posts, pages, now, calls, liveSeen, firstVersionId,
                       creates, modal>>

\* a millisecond passes
TickMs == Tick({1})

NextUpload ==
    \/ TickMs
    \/ CommitFile

SpecUpload == InitUpload /\ [][NextUpload]_vars

\* ======================================================================== claims
\* the last step was restoreVersion(lastOp.versionId) and it returned success
RestoreSucceeded(op) ==
    /\ op.op = "restoreVersion"
    /\ op.call.result = Restored

NewVersions == DOMAIN contentVersions' \ DOMAIN contentVersions

\* C1: a successful restoreVersion(S.id) inserts exactly one new snapshot; it has
\* source "restore" and the title, content and description the live item had
\* before the call, whatever the gate's state.
C1_BackupOfLiveState ==
    [][RestoreSucceeded(lastOp') =>
          LET S == contentVersions[lastOp'.versionId]
              live == LiveTable(Db, S.contentType)[S.contentId]
          IN /\ Cardinality(NewVersions) = 1
             /\ \A i \in DOMAIN contentVersions :
                    i \in DOMAIN contentVersions' /\ contentVersions'[i] = contentVersions[i]
             /\ \A b \in NewVersions :
                    /\ contentVersions'[b].source = "restore"
                    /\ contentVersions'[b].title = live.title
                    /\ contentVersions'[b].content = live.content
                    /\ contentVersions'[b].description = live.description]_vars

\* a restore has succeeded while the gate was not enabled
C1_Witness ==
    /\ RestoreSucceeded(lastOp)
    /\ ~GateOn(Db)
    /\ lastOp.call.backupId \in DOMAIN contentVersions

\* C2 as stated: after a successful restoreVersion(S.id) the live item's title,
\* content and description equal S's, for posts and pages, with or without a
\* description in S.
C2_LiveEqualsSnapshot ==
    [][RestoreSucceeded(lastOp') =>
          LET S == contentVersions[lastOp'.versionId]
              live == LiveTable(Db', S.contentType)[S.contentId]
          IN /\ live.title = S.title
             /\ live.content = S.content
             /\ live.description = S.description]_vars

\* C2 amended: after a successful restoreVersion(S.id) the live item's title and
\* content equal S's; a post's description equals S's when S has a non-empty one
\* and is the empty string otherwise; a page's description is left as it was.
C2_LiveRestored ==
    [][RestoreSucceeded(lastOp') =>
          LET S == contentVersions[lastOp'.versionId]
              before == LiveTable(Db, S.contentType)[S.contentId]
              live == LiveTable(Db', S.contentType)[S.contentId]
          IN /\ live.title = S.title
             /\ live.content = S.content
             /\ S.contentType = "post" =>
                    live.description =
                        (IF S.description \in {Undefined, ""} THEN "" ELSE S.description)
             /\ S.contentType = "page" => live.description = before.description]_vars

\* a post has been restored from a snapshot without a description, and the live
\* post now differs from what it was before the restore
C2_Witness ==
    /\ RestoreSucceeded(lastOp)
    /\ lastOp.call.version.contentType = "post"
    /\ lastOp.call.version.description = Undefined
    /\ lastOp.call.version.contentId \in DOMAIN posts
    /\ posts[lastOp.call.version.contentId].description = ""
    /\ posts[lastOp.call.version.contentId].title # lastOp.call.currentContent.title

\* a restore has failed between its backup insert and its patch
RestoreFaulted(op) ==
    /\ op.op = "restoreVersionFault"
    /\ op.call.pc = "threw"

\* C4: when restoreVersion fails after the backup insert and before the overwrite,
\* the live items are unchanged and the snapshot store holds exactly one snapshot
\* more than before the call, the backup; nothing else differs.
C4_FaultLeavesSurplusBackup ==
    [][RestoreFaulted(lastOp') =>
          LET S == contentVersions[lastOp'.versionId]
              live == LiveTable(Db, S.contentType)[S.contentId]
          IN /\ posts' = posts
             /\ pages' = pages
             /\ versionControlSettings' = versionControlSettings
             /\ NewVersions = {lastOp'.call.backupId}
             /\ DOMAIN contentVersions' = DOMAIN contentVersions \cup NewVersions
             /\ \A i \in DOMAIN contentVersions : contentVersions'[i] = contentVersions[i]
             /\ contentVersions'[lastOp'.call.backupId] = BackupDoc(S, live, now)]_vars

\* a restore has failed after its backup was stored, while the gate was not enabled
C4_Witness ==
    /\ RestoreFaulted(lastOp)
    /\ ~GateOn(Db)
    /\ lastOp.call.backupId \in DOMAIN contentVersions
    /\ contentVersions[lastOp.call.backupId].source = "restore"

\* the last step was restoreVersion(lastOp.versionId)
RestoreCalled(op) == op.op = "restoreVersion"

\* C5: restoreVersion(id) with an id that resolves to no snapshot returns
\* {false, "Version not found"}, inserts no snapshot and changes no live item.
C5_VersionNotFound ==
    [][(RestoreCalled(lastOp') /\ lastOp'.versionId \notin DOMAIN contentVersions) =>
          /\ lastOp'.call.result = VersionNotFound
          /\ lastOp'.call.pc = "done"
          /\ contentVersions' = contentVersions
          /\ nextVersionId' = nextVersionId
          /\ posts' = posts
          /\ pages' = pages]_vars

\* a restore of a snapshot that the retention sweep has deleted was refused
C5_Witness ==
    /\ RestoreCalled(lastOp)
    /\ lastOp.call.result = VersionNotFound
    /\ lastOp.versionId \in 1..(nextVersionId - 1)
    /\ lastOp.versionId \notin DOMAIN contentVersions

\* C6: restoreVersion(S.id) for an existing snapshot S whose live item does not
\* exist returns {false, "Original content not found"}, inserts no snapshot and
\* changes no live item.
C6_OriginalNotFound ==
    [][(/\ RestoreCalled(lastOp')
        /\ lastOp'.versionId \in DOMAIN contentVersions
        /\ contentVersions[lastOp'.versionId].contentId \notin
               DOMAIN LiveTable(Db, contentVersions[lastOp'.versionId].contentType)) =>
          /\ lastOp'.call.result = OriginalNotFound
          /\ lastOp'.call.pc = "done"
          /\ contentVersions' = contentVersions
          /\ nextVersionId' = nextVersionId
          /\ posts' = posts
          /\ pages' = pages]_vars

\* a restore was refused because the live item of its snapshot had been deleted
C6_Witness ==
    /\ RestoreCalled(lastOp)
    /\ lastOp.call.result = OriginalNotFound
    /\ lastOp.versionId \in DOMAIN contentVersions
    /\ contentVersions[lastOp.versionId].contentId \in ContentIds

\* C7: restoring the same snapshot S twice in a row produces two distinct backup
\* snapshots, and the live item's title and content equal S's after the first
\* restore and again after the second.
C7_RestoreTwice ==
    [][(/\ RestoreSucceeded(lastOp)
        /\ RestoreSucceeded(lastOp')
        /\ lastOp'.versionId = lastOp.versionId) =>
          LET S == contentVersions[lastOp.versionId]
              first == LiveTable(Db, S.contentType)[S.contentId]
              second == LiveTable(Db', S.contentType)[S.contentId]
          IN /\ lastOp'.call.backupId # lastOp.call.backupId
             /\ {lastOp.call.backupId, lastOp'.call.backupId}
                    \subseteq DOMAIN contentVersions'
             /\ NewVersions = {lastOp'.call.backupId}
             /\ first.title = S.title /\ first.content = S.content
             /\ second.title = S.title /\ second.content = S.content]_vars

\* S was restored onto a live item that an earlier restore had already made equal
\* to S, and the store holds the backups of both restores
C7_Witness ==
    /\ RestoreSucceeded(lastOp)
    /\ lastOp.call.currentContent.lastSyncedAt >= StartTime
    /\ lastOp.call.currentContent.title = lastOp.call.version.title
    /\ lastOp.call.currentContent.content = lastOp.call.version.content
    /\ \E b \in DOMAIN contentVersions :
           /\ b \notin {lastOp.versionId, lastOp.call.backupId}
           /\ b < lastOp.call.backupId
           /\ contentVersions[b].source = "restore"
           /\ contentVersions[b].contentType = lastOp.call.version.contentType
           /\ contentVersions[b].contentId = lastOp.call.version.contentId
    /\ lastOp.call.backupId \in DOMAIN contentVersions

\* the live item a call's target snapshot belongs to
CallKey(l) == <<l.version.contentType, l.version.contentId>>

\* C3: the backup snapshot is recorded before the live item is overwritten: in no
\* reachable state has a restore changed the live item while its backup is not
\* in the snapshot store.
C3_BackupBeforeOverwrite ==
    \A c \in Callers :
        calls[c].result = Restored =>
            /\ calls[c].backupId \in DOMAIN contentVersions
            /\ contentVersions[calls[c].backupId] =
                   BackupDoc(calls[c].version, calls[c].currentContent,
                             contentVersions[calls[c].backupId].createdAt)

\* a restore has overwritten a live item whose state differed from the target's
C3_Witness ==
    \E c \in Callers :
        /\ calls[c].result = Restored
        /\ calls[c].backupId \in DOMAIN contentVersions
        /\ calls[c].currentContent.title # calls[c].version.title
        /\ calls[c].version.contentId \in DOMAIN LiveTable(Db, calls[c].version.contentType)
        /\ LiveTable(Db, calls[c].version.contentType)[calls[c].version.contentId].title
               = calls[c].version.title

\* both callers have restored a snapshot of the same live item
BothRestored(c, d) ==
    /\ c # d
    /\ calls[c].result = Restored
    /\ calls[d].result = Restored
    /\ CallKey(calls[c]) = CallKey(calls[d])

\* title and content of a document
TitleContent(doc) == <<doc.title, doc.content>>

\* C8: when two restoreVersion calls on the same live item interleave, both
\* backups are inserted, every backup's captured fields equal a state the live
\* item really had, and the final live title and content are those of one of the
\* two target snapshots, never a mixture.
C8_InterleavedRestores ==
    /\ \A c \in Callers :
           calls[c].backupId # NoVersion =>
               /\ calls[c].backupId \in DOMAIN contentVersions
               /\ LiveState(contentVersions[calls[c].backupId])
                      \in liveSeen[CallKey(calls[c])]
    /\ \A c, d \in Callers :
           BothRestored(c, d) =>
               /\ calls[c].backupId # calls[d].backupId
               /\ {calls[c].backupId, calls[d].backupId} \subseteq DOMAIN contentVersions
               /\ lastOp.op = "step" =>
                      /\ CallKey(calls[c])[2] \in
                             DOMAIN LiveTable(Db, CallKey(calls[c])[1])
                      /\ TitleContent(LiveTable(Db, CallKey(calls[c])[1])
                                          [CallKey(calls[c])[2]])
                             \in {TitleContent(calls[c].version),
                                  TitleContent(calls[d].version)}

\* two restores of different snapshots of one item have both read the same live
\* state, both stored their backup and both patched the item
C8_Witness ==
    \E c, d \in Callers :
        /\ BothRestored(c, d)
        /\ lastOp.op = "step"
        /\ calls[c].versionId # calls[d].versionId
        /\ TitleContent(calls[c].version) # TitleContent(calls[d].version)
        /\ calls[c].currentContent = calls[d].currentContent
        /\ TitleContent(calls[c].currentContent) # TitleContent(calls[c].version)
        /\ TitleContent(calls[c].currentContent) # TitleContent(calls[d].version)

\* the snapshots a step removes from the store
DeletedVersions == DOMAIN contentVersions \ DOMAIN contentVersions'

\* C9: only snapshots with createdAt < now - 3 days (259200000 ms) are ever
\* deleted; a snapshot at or after the cutoff is deleted by no step.
C9_OnlyExpiredDeleted ==
    [][/\ RETENTION_MS = 259200000
       /\ \A i \in DeletedVersions :
              contentVersions[i].createdAt < now - 259200000]_vars

\* a sweep has deleted snapshots and a snapshot exactly at the cutoff is still
\* in the store
C9_Witness ==
    /\ lastOp.op = "cleanupOldVersions"
    /\ lastOp.value > 0
    /\ \E i \in DOMAIN contentVersions :
           contentVersions[i].createdAt = now - RETENTION_MS

\* the snapshots eligible for deletion
Eligible == {i \in DOMAIN contentVersions :
                 contentVersions[i].createdAt < now - RETENTION_MS}

\* C10: one cleanupOldVersions call deletes min(E, 1000) of the E eligible
\* snapshots and returns that number; when E > 1000 no eligible snapshot
\* survives while a newer eligible one is deleted.
C10_OldestBatch ==
    [][lastOp'.op = "cleanupOldVersions" =>
          LET n == IF Cardinality(Eligible) < 1000 THEN Cardinality(Eligible) ELSE 1000
          IN /\ DeletedVersions \subseteq Eligible
             /\ Cardinality(DeletedVersions) = n
             /\ lastOp'.value = n
             /\ \A d \in DeletedVersions, k \in Eligible \ DeletedVersions :
                    contentVersions[d].createdAt <= contentVersions[k].createdAt]_vars

\* a sweep has deleted a full batch of 1000 and eligible snapshots remain
C10_Witness ==
    /\ lastOp.op = "cleanupOldVersions"
    /\ lastOp.value = 1000
    /\ Eligible # {}

\* C11: when cleanupOldVersions keeps being invoked, a backlog of snapshots
\* eligible for deletion is eventually cleared: the number of eligible snapshots
\* reaches zero.
C11_BacklogClears == (Eligible # {}) ~> (Eligible = {})

\* a sweep has cleared a backlog that one sweep could not clear
C11_Witness ==
    /\ lastOp.op = "cleanupOldVersions"
    /\ lastOp.value > 0
    /\ Eligible = {}
    /\ (nextVersionId - 1) - Cardinality(DOMAIN contentVersions) > BatchLimit

\* the number of stored snapshots of a content key
SnapshotCount(db, k) ==
    Cardinality({i \in DOMAIN db.contentVersions :
                     /\ db.contentVersions[i].contentType = k[1]
                     /\ db.contentVersions[i].contentId = k[2]})

\* C12: while the gate is disabled or absent, createVersion returns none and the
\* number of snapshots of the given content key, and of every other key, does
\* not change.
C12_GateOffNoSnapshot ==
    [][(lastOp'.op = "createVersion" /\ ~isEnabled(Db)) =>
          /\ lastOp'.value = NoVersion
          /\ \A k \in QueryKeys : SnapshotCount(Db', k) = SnapshotCount(Db, k)
          /\ contentVersions' = contentVersions
          /\ nextVersionId' = nextVersionId]_vars

\* createVersion has returned none for a content item that has snapshots, the
\* gate's record being there with the value false
C12_Witness ==
    /\ lastOp.op = "createVersion"
    /\ lastOp.value = NoVersion
    /\ EnabledSettings(Db) # <<>>
    /\ SnapshotCount(Db, <<lastOp.args.contentType, lastOp.args.contentId>>) > 0

\* C13: while the gate is enabled, createVersion returns the id of a new snapshot
\* and the snapshot count of the given key grows by exactly one; the new
\* snapshot's contentType, contentId, slug, title, content, description and
\* source equal the arguments and no existing snapshot is changed or removed.
C13_GateOnOneSnapshot ==
    [][(lastOp'.op = "createVersion" /\ isEnabled(Db)) =>
          LET id == lastOp'.value
              args == lastOp'.args
              key == <<args.contentType, args.contentId>>
          IN /\ id # NoVersion
             /\ id \notin DOMAIN contentVersions
             /\ DOMAIN contentVersions' = DOMAIN contentVersions \cup {id}
             /\ SnapshotCount(Db', key) = SnapshotCount(Db, key) + 1
             /\ \A k \in QueryKeys \ {key} : SnapshotCount(Db', k) = SnapshotCount(Db, k)
             /\ contentVersions'[id].contentType = args.contentType
             /\ contentVersions'[id].contentId = args.contentId
             /\ contentVersions'[id].slug = args.slug
             /\ contentVersions'[id].title = args.title
             /\ contentVersions'[id].content = args.content
             /\ contentVersions'[id].description = args.description
             /\ contentVersions'[id].source = args.source
             /\ \A i \in DOMAIN contentVersions :
                    contentVersions'[i] = contentVersions[i]]_vars

\* createVersion has added a snapshot to a content item that already had one
C13_Witness ==
    /\ lastOp.op = "createVersion"
    /\ lastOp.value \in DOMAIN contentVersions
    /\ SnapshotCount(Db, <<lastOp.args.contentType, lastOp.args.contentId>>) >= 2

\* the last step was getVersionHistory(lastOp.key), which returned lastOp.history
HistoryReturned(op) == op.op = "getVersionHistory"

\* C14 as stated: getVersionHistory returns its entries ordered by createdAt
\* strictly descending: every entry's createdAt is greater than that of the entry
\* after it.
C14_StrictlyDescending ==
    HistoryReturned(lastOp) =>
        \A k \in 1..(Len(lastOp.history) - 1) :
            lastOp.history[k].createdAt > lastOp.history[k + 1].createdAt

\* C14 amended: getVersionHistory returns its entries ordered by createdAt
\* descending: every entry's createdAt is greater than or equal to that of the
\* entry after it, and of two entries with the same createdAt the one inserted
\* later comes first.
C14_Descending ==
    HistoryReturned(lastOp) =>
        \A k \in 1..(Len(lastOp.history) - 1) :
            \/ lastOp.history[k].createdAt > lastOp.history[k + 1].createdAt
            \/ /\ lastOp.history[k].createdAt = lastOp.history[k + 1].createdAt
               /\ lastOp.history[k].id > lastOp.history[k + 1].id

\* a history of snapshots taken at different times has been returned
C14_Witness ==
    /\ HistoryReturned(lastOp)
    /\ Len(lastOp.history) >= 2
    /\ lastOp.history[1].createdAt > lastOp.history[2].createdAt

\* the stored snapshots of a content key
SnapshotsOf(db, k) ==
    {i \in DOMAIN db.contentVersions :
         /\ db.contentVersions[i].contentType = k[1]
         /\ db.contentVersions[i].contentId = k[2]}

\* C15: getVersionHistory(type, id) returns one summary for every stored snapshot
\* whose contentType and contentId both equal the arguments and none for any
\* other snapshot; it returns the empty sequence when no snapshot matches.
C15_HistoryOfKey ==
    HistoryReturned(lastOp) =>
        LET h == lastOp.history IN
        /\ {h[k].id : k \in 1..Len(h)} = SnapshotsOf(Db, lastOp.key)
        /\ Len(h) = Cardinality(SnapshotsOf(Db, lastOp.key))
        /\ \A k \in 1..Len(h) :
               /\ h[k].title = contentVersions[h[k].id].title
               /\ h[k].createdAt = contentVersions[h[k].id].createdAt
               /\ h[k].source = contentVersions[h[k].id].source
        /\ SnapshotsOf(Db, lastOp.key) = {} => h = <<>>

\* the history of a post has been returned while the store also holds a
\* snapshot of the page with the same contentId
C15_Witness ==
    /\ HistoryReturned(lastOp)
    /\ lastOp.key[1] = "post"
    /\ Len(lastOp.history) >= 1
    /\ SnapshotsOf(Db, <<"page", lastOp.key[2]>>) # {}

\* C16: the scenario holds end to end: with the gate disabled an edit of P1 leaves
\* the history of P1 empty; after the gate is enabled, an edit of P1 to title "A"
\* gives a history of length 1 with source "dashboard"; an edit to title "B"
\* gives length 2 with the newest entry's title "B"; restoring the first entry
\* makes the live title "A", the history length 3 and the newest entry a
\* snapshot with source "restore" and title "B".
C16_Scenario ==
    LET h == lastOp.history
        live == LiveTable(Db, lastOp.key[1])[lastOp.key[2]]
    IN /\ lastOp.op = "editGateOff" => h = <<>>
       /\ lastOp.op = "enableGate" => h = <<>>
       /\ lastOp.op = "editA" =>
              /\ Len(h) = 1
              /\ h[1].source = "dashboard"
              /\ h[1].title = "A"
       /\ lastOp.op = "editB" =>
              /\ Len(h) = 2
              /\ h[1].title = "B"
              /\ h[2].title = "A"
       /\ lastOp.op = "restoreFirst" =>
              /\ lastOp.call.result = Restored
              /\ live.title = "A"
              /\ Len(h) = 3
              /\ h[1].source = "restore"
              /\ h[1].title = "B"

\* the scenario has run to its end, the restore in the millisecond of the
\* second edit
C16_Witness ==
    /\ lastOp.op = "restoreFirst"
    /\ Len(lastOp.history) = 3
    /\ lastOp.history[1].createdAt = lastOp.history[2].createdAt
    /\ lastOp.history[1].id = lastOp.call.backupId

\* C17: isEnabled returns true if and only if a versionControlSettings record
\* with key "enabled" exists and its value is true; with no record it returns
\* false.
C17_IsEnabled ==
    lastOp.op = "isEnabled" =>
        /\ lastOp.flag <=>
               \E i \in 1..Len(versionControlSettings) :
                   /\ versionControlSettings[i].key = "enabled"
                   /\ versionControlSettings[i].value = TRUE
        /\ versionControlSettings = <<>> => lastOp.flag = FALSE

\* isEnabled has returned false for a gate whose record holds the value false
C17_Witness ==
    /\ lastOp.op = "isEnabled"
    /\ lastOp.flag = FALSE
    /\ versionControlSettings # <<>>
    /\ contentVersions # <<>>

\* C18: after any sequence of setEnabled calls at most one versionControlSettings
\* record with key "enabled" exists, and isEnabled returns the argument of the
\* setEnabled call that completed last: a setEnabled call makes it its argument
\* and no other operation changes it.
C18_OneSettingLastWins ==
    [][/\ Len(EnabledSettings(Db')) <= 1
       /\ lastOp'.op = "setEnabled" => isEnabled(Db') = lastOp'.enabled
       /\ lastOp'.op # "setEnabled" => isEnabled(Db') = isEnabled(Db)]_vars

\* the gate has been switched off after snapshots were taken while it was on
C18_Witness ==
    /\ lastOp.op = "setEnabled"
    /\ lastOp.enabled = FALSE
    /\ Len(versionControlSettings) = 1
    /\ contentVersions # <<>>

\* C19: setEnabled is idempotent: a setEnabled(b) that follows a setEnabled(b)
\* leaves the settings store, the snapshot store and the live content as the
\* first call left them.
C19_SetEnabledIdempotent ==
    [][(lastOp'.op = "setEnabled" /\ lastOp'.again) =>
          /\ versionControlSettings' = versionControlSettings
          /\ contentVersions' = contentVersions
          /\ nextVersionId' = nextVersionId
          /\ posts' = posts
          /\ pages' = pages]_vars

\* setEnabled(true) has been called right after setEnabled(true)
C19_Witness ==
    /\ lastOp.op = "setEnabled"
    /\ lastOp.again
    /\ lastOp.enabled
    /\ isEnabled(Db)

\* C20: snapshots are immutable: a step leaves every snapshot that still exists
\* with the field values it had, and the only operation that removes a snapshot
\* is cleanupOldVersions.
C20_SnapshotsImmutable ==
    [][\A i \in DOMAIN contentVersions :
           \/ /\ i \in DOMAIN contentVersions'
              /\ contentVersions'[i] = contentVersions[i]
           \/ /\ i \notin DOMAIN contentVersions'
              /\ lastOp'.op = "cleanupOldVersions"]_vars

\* a sweep has removed a snapshot and the backup of a restore of it is still in
\* the store
C20_Witness ==
    /\ lastOp.op = "cleanupOldVersions"
    /\ lastOp.value > 0
    /\ \E i \in DOMAIN contentVersions :
           /\ contentVersions[i].source = "restore"
           /\ contentVersions[i].contentType = "post"

\* C21: snapshot ids are unique and never reused: every snapshot a step inserts
\* gets an id that no snapshot created before it had, also when the retention
\* sweep has deleted that earlier snapshot.
C21_IdsNeverReused ==
    [][/\ \A i \in NewVersions :
              /\ i \notin 1..(nextVersionId - 1)
              /\ i \in 1..(nextVersionId' - 1)
       /\ nextVersionId' >= nextVersionId
       /\ Cardinality(NewVersions) = nextVersionId' - nextVersionId
       /\ DOMAIN contentVersions' \subseteq 1..(nextVersionId' - 1)]_vars

\* a snapshot has been inserted after the sweep deleted an earlier one
C21_Witness ==
    /\ lastOp.op \in {"createVersion", "restoreVersion"}
    /\ (nextVersionId - 1) \in DOMAIN contentVersions
    /\ contentVersions[nextVersionId - 1].createdAt = now
    /\ \E j \in 1..(nextVersionId - 2) : j \notin DOMAIN contentVersions

\* C22: getVersion(id) returns none when no snapshot with that id exists, and
\* otherwise a record whose every field equals the stored snapshot's field.
C22_GetVersion ==
    lastOp.op = "getVersion" =>
        IF lastOp.versionId \notin DOMAIN contentVersions
        THEN lastOp.found = <<>>
        ELSE /\ Len(lastOp.found) = 1
             /\ lastOp.found[1].id = lastOp.versionId
             /\ \A f \in {"contentType", "contentId", "slug", "title", "content",
                          "description", "createdAt", "source"} :
                    lastOp.found[1][f] = contentVersions[lastOp.versionId][f]

\* getVersion has returned a snapshot that has a description
C22_Witness ==
    /\ lastOp.op = "getVersion"
    /\ lastOp.found # <<>>
    /\ lastOp.found[1].description = "d"

\* C23: getStats returns totalVersions equal to the number of stored snapshots,
\* oldestVersion and newestVersion equal to the least and greatest createdAt of
\* the stored snapshots (both none exactly when the store is empty, and
\* oldestVersion <= newestVersion otherwise), and enabled equal to isEnabled.
C23_GetStats ==
    lastOp.op = "getStats" =>
        LET st == lastOp.stats
            ids == DOMAIN contentVersions
        IN /\ st.totalVersions = Cardinality(ids)
           /\ st.enabled = isEnabled(Db)
           /\ ids = {} <=> st.oldestVersion = <<>>
           /\ ids = {} <=> st.newestVersion = <<>>
           /\ ids # {} =>
                  /\ \E i \in ids : contentVersions[i].createdAt = st.oldestVersion[1]
                  /\ \E i \in ids : contentVersions[i].createdAt = st.newestVersion[1]
                  /\ \A i \in ids :
                         /\ st.oldestVersion[1] <= contentVersions[i].createdAt
                         /\ contentVersions[i].createdAt <= st.newestVersion[1]
                  /\ st.oldestVersion[1] <= st.newestVersion[1]

\* getStats has been asked with snapshots of different times in the store
C23_Witness ==
    /\ lastOp.op = "getStats"
    /\ lastOp.stats.totalVersions >= 2
    /\ lastOp.stats.oldestVersion[1] < lastOp.stats.newestVersion[1]

\* C24: for every snapshot returned by getVersionHistory, contentPreview equals
\* the content when the content has at most 150 characters (150 included) and
\* the first 150 characters of the content followed by "..." when it has more.
C24_ContentPreview ==
    HistoryReturned(lastOp) =>
        \A k \in 1..Len(lastOp.history) :
            LET content == contentVersions[lastOp.history[k].id].content
                preview == lastOp.history[k].contentPreview
            IN IF Len(content) <= 150
               THEN preview = content
               ELSE /\ Len(preview) = 153
                    /\ SubSeq(preview, 1, 150) = SubSeq(content, 1, 150)
                    /\ SubSeq(preview, 151, 153) = "..."

\* a history holds a snapshot of exactly 150 characters and one of more
C24_Witness ==
    /\ HistoryReturned(lastOp)
    /\ \E k \in 1..Len(lastOp.history) :
           Len(contentVersions[lastOp.history[k].id].content) = 150
    /\ \E k \in 1..Len(lastOp.history) :
           /\ Len(contentVersions[lastOp.history[k].id].content) > 150
           /\ Len(lastOp.history[k].contentPreview) = 153

\* C25: every result of restoreVersion is one of {false, "Version not found"},
\* {false, "Original content not found"} and {true, "Version restored
\* successfully"}; success is true exactly with the last message, and the two
\* failure messages are returned for the missing snapshot and for the missing
\* live item.
C25_RestoreResults ==
    [][RestoreCalled(lastOp') =>
          LET result == lastOp'.call.result
              id == lastOp'.versionId
              noVersion == id \notin DOMAIN contentVersions
              noOriginal ==
                  /\ ~noVersion
                  /\ contentVersions[id].contentId \notin
                         DOMAIN LiveTable(Db, contentVersions[id].contentType)
          IN /\ result \in
                    {[success |-> FALSE, message |-> "Version not found"],
                     [success |-> FALSE, message |-> "Original content not found"],
                     [success |-> TRUE, message |-> "Version restored successfully"]}
             /\ result.success <=> result.message = "Version restored successfully"
             /\ noVersion <=> result.message = "Version not found"
             /\ noOriginal <=> result.message = "Original content not found"]_vars

\* a restore of a page has returned success
C25_Witness ==
    /\ RestoreSucceeded(lastOp)
    /\ lastOp.call.result.message = "Version restored successfully"
    /\ lastOp.call.version.contentType = "page"

\* the ids of the summaries of a history
HistoryIds(h) == {h[k].id : k \in 1..Len(h)}

\* C27: the backup snapshot inserted by restoreVersion(S.id) has the contentType,
\* contentId and slug of S (the slug of S, not that of the live item), so it is
\* in the same history as S.
C27_BackupInHistoryOfTarget ==
    [][RestoreSucceeded(lastOp') =>
          LET S == contentVersions[lastOp'.versionId]
              B == contentVersions'[lastOp'.call.backupId]
          IN /\ B.contentType = S.contentType
             /\ B.contentId = S.contentId
             /\ B.slug = S.slug
             /\ {lastOp'.versionId, lastOp'.call.backupId} \subseteq
                    HistoryIds(getVersionHistory(Db', S.contentType, S.contentId))]_vars

\* a restore has backed up a live item whose slug differs from its target's
C27_Witness ==
    /\ RestoreSucceeded(lastOp)
    /\ lastOp.call.currentContent.slug # lastOp.call.version.slug
    /\ lastOp.call.backupId \in DOMAIN contentVersions
    /\ contentVersions[lastOp.call.backupId].slug = lastOp.call.version.slug

\* C28: live content items are modified only by restoreVersion, and a
\* restoreVersion(S.id) call modifies only the item of S.contentType and
\* S.contentId: createVersion, setEnabled, cleanupOldVersions and the queries
\* leave every live item unchanged, and a restore leaves every other live item
\* and the gate setting unchanged.
C28_OnlyRestoreWritesLive ==
    [][/\ lastOp'.op # "restoreVersion" => (posts' = posts /\ pages' = pages)
       /\ lastOp'.op = "restoreVersion" =>
              /\ versionControlSettings' = versionControlSettings
              /\ DOMAIN posts' = DOMAIN posts
              /\ DOMAIN pages' = DOMAIN pages
              /\ \A ct \in ContentTypes :
                     \A id \in DOMAIN LiveTable(Db, ct) :
                         \/ LiveTable(Db', ct)[id] = LiveTable(Db, ct)[id]
                         \/ /\ lastOp'.versionId \in DOMAIN contentVersions
                            /\ contentVersions[lastOp'.versionId].contentType = ct
                            /\ contentVersions[lastOp'.versionId].contentId = id]_vars

\* a restore has overwritten a post and the page with the same contentId is as
\* it was at the start
C28_Witness ==
    /\ RestoreSucceeded(lastOp)
    /\ lastOp.call.version.contentType = "post"
    /\ posts[lastOp.call.version.contentId].lastSyncedAt = now
    /\ posts[lastOp.call.version.contentId].title # lastOp.call.currentContent.title
    /\ lastOp.call.version.contentId \in DOMAIN pages
    /\ pages[lastOp.call.version.contentId].lastSyncedAt = 0

\* the queries
ReadOps == {"isEnabled", "getVersionHistory", "getVersion", "getStats"}

\* C29: the read operations isEnabled, getVersionHistory, getVersion and
\* getStats have no side effects: the settings store, the snapshot store and the
\* live content are the same before and after each call.
C29_ReadsHaveNoEffect ==
    [][lastOp'.op \in ReadOps =>
          /\ versionControlSettings' = versionControlSettings
          /\ contentVersions' = contentVersions
          /\ nextVersionId' = nextVersionId
          /\ posts' = posts
          /\ pages' = pages]_vars

\* isEnabled has been asked while there was no setting, and there is none after
C29_Witness ==
    /\ lastOp.op = "isEnabled"
    /\ lastOp.flag = FALSE
    /\ versionControlSettings = <<>>

\* the live item a call's restore is about, in a database
LiveOf(db, l) == LiveTable(db, l.version.contentType)[l.version.contentId]

\* C26: restoreVersion returns success only when the live item has been
\* overwritten with the target snapshot's title and content; a call whose
\* overwrite fails throws: it returns neither success nor one of the two
\* not-found results.
C26_SuccessMeansOverwritten ==
    [][\A c \in Callers :
           /\ (calls'[c].result.success /\ ~calls[c].result.success) =>
                  /\ calls'[c].version.contentId \in
                         DOMAIN LiveTable(Db', calls'[c].version.contentType)
                  /\ TitleContent(LiveOf(Db', calls'[c])) = TitleContent(calls'[c].version)
           /\ calls'[c].pc = "threw" =>
                  /\ ~calls'[c].result.success
                  /\ calls'[c].result.message \notin
                         {"Version not found", "Original content not found"}]_vars

\* the patch of a restore has thrown, the live item having been deleted after
\* the restore stored its backup
C26_Witness ==
    \E c \in Callers :
        /\ lastOp.op = "step"
        /\ lastOp.caller = c
        /\ calls[c].pc = "threw"
        /\ calls[c].backupId \in DOMAIN contentVersions
        /\ calls[c].version.contentId \notin
               DOMAIN LiveTable(Db, calls[c].version.contentType)

\* caller c's restore overwrites the live item in this step
Overwrites(c) ==
    /\ calls[c].pc = "patch"
    /\ calls'[c].result = Restored

Inserts(c) ==
    /\ creates[c].pc = "insert"
    /\ creates'[c].pc = "done"
    /\ DOMAIN contentVersions' # DOMAIN contentVersions

C32_UndoThroughBackup ==
    [][(/\ RestoreSucceeded(lastOp)
        /\ RestoreSucceeded(lastOp')
        /\ lastOp'.versionId = lastOp.call.backupId) =>
           LiveState(LiveOf(Db', lastOp'.call)) = LiveState(lastOp.call.currentContent)]_vars

\* the backup of a restore that changed a post's title has been restored
C32_Witness ==
    /\ RestoreSucceeded(lastOp)
    /\ lastOp.versionId = firstVersionId
    /\ lastOp.call.version.source = "restore"
    /\ lastOp.call.version.contentType = "post"
    /\ lastOp.call.version.title # lastOp.call.currentContent.title
    /\ lastOp.call.version.description = "d"
    /\ LiveState(posts[lastOp.call.version.contentId]) = LiveState(lastOp.call.version)

\* C33: when restoreVersion restores a post from a snapshot that has no
\* description (absent or empty), the live post's description becomes the empty
\* string; when the snapshot has a non-empty description, the live post's
\* description becomes that description.
C33_PostDescription ==
    [][(RestoreSucceeded(lastOp') /\ lastOp'.call.version.contentType = "post") =>
           posts'[lastOp'.call.version.contentId].description =
               IF lastOp'.call.version.description \in {Undefined, ""}
               THEN ""
               ELSE lastOp'.call.version.description]_vars

\* a post that had a description has been restored from a snapshot without one
C33_Witness ==
    /\ RestoreSucceeded(lastOp)
    /\ lastOp.call.version.contentType = "post"
    /\ lastOp.call.version.description = Undefined
    /\ lastOp.call.currentContent.description = "d"
    /\ posts[lastOp.call.version.contentId].description = ""

\* C34: when restoreVersion restores a page, it writes only title, content and
\* lastSyncedAt: the live page's description and every other field are left
\* unchanged, whatever description the target snapshot holds.
C34_PageFrame ==
    [][(RestoreSucceeded(lastOp') /\ lastOp'.call.version.contentType = "page") =>
           pages'[lastOp'.call.version.contentId] =
               [pages[lastOp'.call.version.contentId] EXCEPT
                    !.title = lastOp'.call.version.title,
                    !.content = lastOp'.call.version.content,
                    !.lastSyncedAt = now]]_vars

\* a page without a description has been restored from a snapshot that has one
C34_Witness ==
    /\ RestoreSucceeded(lastOp)
    /\ lastOp.call.version.contentType = "page"
    /\ lastOp.call.version.description = "d"
    /\ lastOp.call.version.title # lastOp.call.currentContent.title
    /\ pages[lastOp.call.version.contentId].description = Undefined
    /\ pages[lastOp.call.version.contentId].title = lastOp.call.version.title
    /\ pages[lastOp.call.version.contentId].slug = lastOp.call.currentContent.slug

\* C35: cleanupOldVersions applies the retention rule to every snapshot, whatever
\* its source and whatever the gate: a sweep deletes the restore backups older
\* than the window like any other snapshot, also while the gate is disabled.
C35_SweepIgnoresSourceAndGate ==
    [][(lastOp'.op = "cleanupOldVersions" /\ Cardinality(Eligible) <= BatchLimit) =>
           \A i \in DOMAIN contentVersions :
               /\ contentVersions[i].source \in Sources
               /\ (i \in Eligible <=> i \notin DOMAIN contentVersions')]_vars

\* with the gate disabled, a sweep has deleted the two snapshots there were, one
\* of them the backup of the restore that has written a live item
C35_Witness ==
    /\ lastOp.op = "cleanupOldVersions"
    /\ lastOp.value = 2
    /\ nextVersionId = 3
    /\ contentVersions = <<>>
    /\ EnabledSettings(Db) # <<>>
    /\ ~GateOn(Db)
    /\ \E k \in Keys : /\ k[2] \in DOMAIN LiveTable(Db, k[1])
                       /\ LiveTable(Db, k[1])[k[2]].lastSyncedAt # 0

\* C36: in the version history modal, isRestoring is true exactly while a restore
\* request started by handleRestore is in flight, and is false again when the
\* request has completed with success, with a failure result or with a thrown
\* error; the restore button being disabled while isRestoring is true, at most
\* one restore request of the modal is in flight at any time.
C36_RestoringWhileInFlight ==
    /\ modal.isRestoring <=> modal.pending # <<>>
    /\ Len(modal.pending) <= 1
    /\ lastOp.op \in {"restoreReturned", "restoreThrew"} => ~modal.isRestoring

\* a restore request has returned a failure and the button is enabled again
C36_Witness ==
    /\ lastOp.op = "restoreReturned"
    /\ ~lastOp.call.result.success
    /\ modal.isOpen
    /\ ~modal.isRestoring
    /\ ~RestoreDisabled(modal)

\* C37: handleRestore closes the modal (calls onClose) only when restoreVersion
\* returned success = true; on a {success: false} result or a thrown error the
\* modal stays open with the same selected version; with no selected version
\* handleRestore issues no restore request at all.
C37_ClosesOnSuccessOnly ==
    [][/\ (lastOp'.op \in {"handleRestore", "restoreReturned", "restoreThrew"}
             /\ modal.isOpen /\ ~modal'.isOpen) =>
                (lastOp'.op = "restoreReturned" /\ lastOp'.call.result.success)
       /\ (lastOp'.op = "restoreReturned" /\ lastOp'.call.result.success) =>
                ~modal'.isOpen
       /\ (\/ lastOp'.op = "restoreThrew"
           \/ lastOp'.op = "restoreReturned" /\ ~lastOp'.call.result.success) =>
                /\ modal'.isOpen = modal.isOpen
                /\ modal'.selectedVersionId = modal.selectedVersionId
       /\ (lastOp'.op = "handleRestore" /\ modal.selectedVersionId = Null) =>
                modal' = modal
       /\ (lastOp'.op = "handleRestore" /\ modal.selectedVersionId # Null) =>
                modal'.pending = Append(modal.pending, modal.selectedVersionId[1])]_vars

\* a restore request has returned {success: false} and the modal is open with
\* the version that was asked for still selected
C37_Witness ==
    /\ lastOp.op = "restoreReturned"
    /\ lastOp.call.result = OriginalNotFound
    /\ modal.isOpen
    /\ modal.selectedVersionId = Some(lastOp.versionId)
    /\ modal.pending = <<>>

\* C38: commitFile commits a file to storage only if media storage is configured,
\* the contentType is one of image/png, image/jpeg, image/gif, image/webp, and
\* size <= 10485760 bytes (exactly 10 MB is accepted); in every other case it
\* raises an error and commits nothing, the checks being applied in the order
\* configuration, type, size.
C38_CommitFileChecks ==
    [][lastOp'.op = "commitFile" =>
          LET a == lastOp'.upload
              configured == BunnyVars \subseteq uploads.env
              typeOk == a.contentType \in
                            {"image/png", "image/jpeg", "image/gif", "image/webp"}
              sizeOk == a.size <= 10485760
          IN /\ (configured /\ typeOk /\ sizeOk) =>
                    /\ a.error = NoError
                    /\ Len(uploads'.committed) = Len(uploads.committed) + 1
                    /\ uploads'.committed[Len(uploads'.committed)].blobId = a.blobId
                    /\ SubSeq(uploads'.committed, 1, Len(uploads.committed)) =
                           uploads.committed
             /\ ~(configured /\ typeOk /\ sizeOk) =>
                    /\ a.error # NoError
                    /\ uploads' = uploads
             /\ ~configured => a.error = NotConfigured
             /\ (configured /\ ~typeOk) => a.error = InvalidType(a.contentType)
             /\ (configured /\ typeOk /\ ~sizeOk) => a.error = TooLarge]_vars

\* a file of exactly 10 MB has been committed, under its sanitized name
C38_Witness ==
    /\ lastOp.op = "commitFile"
    /\ lastOp.upload.size = 10485760
    /\ lastOp.upload.error = NoError
    /\ lastOp.upload.filename = "A_ -b.PNG"
    /\ uploads.committed # <<>>
    /\ uploads.committed[Len(uploads.committed)].path =
           <<"/uploads/", now, "a-b.png">>

====
